---- MODULE Spec2Model ----
(***************************************************************************)
(* Job control of the shell's execution engine (src/src/core/mod.rs and    *)
(* src/src/core/builtins.rs): Shell::eval_list, Shell::eval_pipeline,      *)
(* Shell::eval_command, Shell::do_fork_exec, Shell::wait_for_job,          *)
(* Shell::mark_process_status and builtin_fg, run against a kernel that    *)
(* schedules the forked children, ends or stops them, and reports their    *)
(* state changes through waitpid(-1, WUNTRACED).                           *)
(*                                                                         *)
(* The shell is one sequential process: pc is its position.  A command     *)
(* line is a List, and the walk over it draws each part of it when it      *)
(* reaches it: the leaf commands of a pipeline in eval_pipeline's order    *)
(* (left subtree before right subtree), the next (cond, pipeline) pair at  *)
(* the head of eval_list's loop, and, when the loop breaks, the conditions *)
(* of the pairs it leaves behind.                                          *)
(*                                                                         *)
(* Spec lets every child do its own setpgid and tcsetpgrp at any time      *)
(* after the fork and lets the foreground program change the terminal      *)
(* attributes; SpecJobs, for the properties of the job table, runs each    *)
(* child up to its execve within the fork.  The kernel ends, kills and     *)
(* stops children; a stopped child runs again only by fg's SIGCONT.        *)
(*                                                                         *)
(* The parts of the shell that do not touch the job table have their own   *)
(* state and their own specification over the same initial state:          *)
(*   SpecLine   the main loop, the parser's verdict on a line, Shell::eval *)
(*   SpecCd     builtin_cd, the directory stacks, PWD and OLDPWD           *)
(*   SpecAlias  eval_command's alias substitution, builtin_alias           *)
(*   SpecPipe   eval_pipeline's pipes, the descriptors of shell and child  *)
(*   SpecStr    eval_str and expand_tilde                                  *)
(***************************************************************************)
EXTENDS Integers, Sequences, FiniteSets, TLC

(* ------------------------------ bounds -------------------------------- *)
\* children forked over one run of the shell
MaxProcs == 2
\* (cond, pipeline) pairs of list.following behind the pair whose condition ended the loop
MaxFollowing == 2

(* ----------------------------- constants ------------------------------ *)
\* Option::None of an i32 / Pgid / Termios field
None == -1
\* the shell's pid, which Shell::new makes its process group id
ShellPid == 1

ChildPids == (ShellPid + 1)..(ShellPid + MaxProcs)
Conditions == {"Always", "IfSuccess", "IfError"}
\* exit statuses of a child (_exit) and of a builtin
ExitCodes == {0, 1}
\* SIGKILL, which ends a child whatever it is doing
TermSignals == {9}
\* SIGSTOP, which stops a child whatever it is doing
StopSignals == {19}
\* terminal attribute settings: 0 as the shell found them, 1 as a child set them
Termios == {0, 1}

NoWaitStatus == [pid |-> None, kind |-> "None", val |-> 0]
NoPending == [kind |-> "None", val |-> 0]

RECURSIVE SeqsUpTo(_, _)
SeqsUpTo(S, n) ==
    IF n = 0 THEN {<<>>}
    ELSE LET shorter == SeqsUpTo(S, n - 1)
         IN shorter \cup {Append(s, x) : s \in {t \in shorter : Len(t) = n - 1}, x \in S}

Remove(f, k) == [x \in DOMAIN f \ {k} |-> f[x]]
Put(f, k, v) == [x \in DOMAIN f \cup {k} |-> IF x = k THEN v ELSE f[x]]

VARIABLES
    pc,               \* the shell's position
    panic,            \* the message of the panic that aborted the shell, or ""
    cond,             \* the condition of the pair the loop over list.following is at
    following,        \* the conditions of the pairs behind it, once the loop has ended
    ncmd,             \* whether eval_pipeline has evaluated a command of the current pipeline
    job,              \* eval_list's local `job`, under construction by eval_pipeline
    job_pgid,         \* eval_list's local `job_pgid`
    saved_termios,    \* eval_list's local `saved_termios`
    last_status,      \* eval_list's local `last_status`
    fg_pgid,          \* builtin_fg's local `job_pgid`
    fg_saved_termios, \* builtin_fg's local `saved_termios`
    wait_pgid,        \* wait_for_job's parameter `job_pgid`
    wait_from,        \* the caller wait_for_job returns to
    wait_status,      \* wait_for_job's local `wait_status`, until mark_process_status takes it
    wait_ret,         \* the value wait_for_job returned
    eval_ret,         \* the value eval returned to the main loop
    jobs,             \* Shell.jobs
    procs,            \* the kernel's unreaped children of the shell
    next_pid,         \* the pid the next fork returns
    tty_pgrp,         \* the terminal's foreground process group
    termios,          \* the terminal's attributes
    left,             \* pids forked for the list's most recently finished pipeline
    line,             \* the line read_line returned, as the tokens of toplevel's grammar
    cwd,              \* the shell process's current directory
    cwd_gone,         \* whether that directory has been removed (current_dir() fails)
    dirs,             \* the directories that exist
    cd_undo_stack,    \* Shell.cd_undo_stack
    cd_redo_stack,    \* Shell.cd_redo_stack
    env_PWD,          \* env_vars["PWD"]
    env_OLDPWD,       \* env_vars["OLDPWD"]
    cd_status,        \* the value builtin_cd returned
    cd_log,           \* args[1] of the latest cd commands, oldest first
    aliases,          \* Env.aliases
    args,             \* eval_command's `args` as eval_args returned them
    actual_args,      \* eval_command's `args` when it looks up the executable
    builtin_ret,      \* the value the builtin run by that command returned, if any
    pl_stack,         \* the activations of eval_pipeline, the outermost first
    fds,              \* the shell's descriptor table
    npipes,           \* the number of pipes pipe_pair has created for the pipeline
    children,         \* the descriptor tables of the children after execve, in fork order
    home,             \* HOME in the environment the shell process was started with
    parts,            \* eval_str's `parts`; a substitution is given with the output read
    part_i,           \* the number of parts eval_str's loop has handled
    buf,              \* eval_str's `buf`
    str_at,           \* eval_str's position
    str_ret,          \* the bytes eval_str returned
    src,              \* the text handed to the parser
    ast,              \* what the parser returned for it
    ed,               \* the LineEditor, the locals of its read_line and the terminal
    step,             \* how many keys of the scenario this read_line was given, -1 if others
    to_line,          \* the line find_range is given
    to_range,         \* the selector, the object and the range find_range returned, or <<>>
    fc_partial,       \* the word FileCompletion::candidates is given
    fc_cands,         \* whether it was called, and the set of the candidates it returned
    env_shell_vars,   \* Env::shell_vars, a map from names to values
    env_env_vars,     \* Env::env_vars, a map from names to values
    var_cmd,          \* the last command or evaluation over the two maps, and its status
    var_ret,          \* the name and the bytes of the last evaluation of $name, or <<>>
    cmd_out           \* eval_command of the simple command of src: its args, or its panic

\* the execution engine: lists, jobs, children, terminal
exec_vars == <<pc, panic, cond, following, ncmd, job, job_pgid, saved_termios, last_status,
               fg_pgid, fg_saved_termios, wait_pgid, wait_from, wait_status, wait_ret,
               eval_ret, jobs, procs, next_pid, tty_pgrp, termios, left>>
\* the directory state of builtin_cd
cd_vars == <<cwd, cwd_gone, dirs, cd_undo_stack, cd_redo_stack, env_PWD, env_OLDPWD, cd_status,
             cd_log>>

\* a simple command and the aliases
alias_vars == <<aliases, args, actual_args, builtin_ret>>

\* the descriptors of a pipeline
pipe_vars == <<pl_stack, fds, npipes, children>>

\* the evaluation of a string
str_vars == <<home, parts, part_i, buf, str_at, str_ret>>

\* the parser's input and output
parse_vars == <<src, ast>>

\* the line editor
ed_vars == <<ed, step>>

\* the arguments and the results of the functions that are called by themselves
obj_vars == <<to_line, to_range>>
fc_vars == <<fc_partial, fc_cands>>
map_vars == <<env_shell_vars, env_env_vars, var_cmd, var_ret>>
fn_vars == <<obj_vars, fc_vars, map_vars, cmd_out>>

vars == <<exec_vars, line, cd_vars, alias_vars, pipe_vars, str_vars, parse_vars, ed_vars, fn_vars>>

\* what the execution engine's job control leaves alone
rest_vars == <<line, cd_vars, alias_vars, pipe_vars, str_vars, parse_vars, ed_vars,
    fn_vars>>
\* what builtin_cd and the directories' owners leave alone
other_cd == <<exec_vars, line, alias_vars, pipe_vars, str_vars, parse_vars, ed_vars,
    fn_vars>>
\* what the evaluation of a simple command's arguments leaves alone
other_alias == <<exec_vars, line, cd_vars, pipe_vars, str_vars, parse_vars, ed_vars,
    fn_vars>>
\* what the wiring of a pipeline leaves alone
other_pipe == <<exec_vars, line, cd_vars, alias_vars, str_vars, parse_vars, ed_vars,
    fn_vars>>
\* what the evaluation of a string leaves alone
other_str == <<exec_vars, line, cd_vars, alias_vars, pipe_vars, parse_vars, ed_vars,
    fn_vars>>

other_parse == <<exec_vars, line, cd_vars, alias_vars, pipe_vars, str_vars, ed_vars,
    fn_vars>>

other_ed == <<exec_vars, line, cd_vars, alias_vars, pipe_vars, str_vars, parse_vars,
    fn_vars>>

other_fn == <<exec_vars, line, cd_vars, alias_vars, pipe_vars, str_vars, parse_vars, ed_vars>>
other_obj == <<other_fn, fc_vars, map_vars, cmd_out>>
other_fc == <<other_fn, obj_vars, map_vars, cmd_out>>
other_map == <<other_fn, obj_vars, fc_vars, cmd_out>>
other_cmd == <<exec_vars, line, cd_vars, alias_vars, pipe_vars, str_vars, ed_vars,
    obj_vars, fc_vars, map_vars>>

\* what only the shell writes
shell_vars == <<pc, panic, cond, following, ncmd, job, job_pgid, saved_termios, last_status,
                fg_pgid, fg_saved_termios, wait_pgid, wait_from, wait_status, wait_ret,
                eval_ret, jobs, next_pid, left, rest_vars>>
list_vars == <<cond, following, ncmd, job, job_pgid, saved_termios, last_status, eval_ret, left>>
fg_vars == <<fg_pgid, fg_saved_termios>>
wait_vars == <<wait_pgid, wait_from, wait_status, wait_ret>>

(* -------------------------- directory state --------------------------- *)
\* the longest directory stack the model follows
MaxStack == 2
Dirs == {"/", "/a", "/b"}
\* the number of cd commands the model remembers
MaxLog == 3
\* an environment variable that is not set
Unset == ""
\* what a cd without argument finds in HOME
HomeDir == "/a"

InitCd ==
    /\ cwd = "/"
    /\ cwd_gone = FALSE
    /\ dirs = Dirs
    /\ cd_undo_stack = <<>>
    /\ cd_redo_stack = <<>>
    /\ env_PWD = "/"
    /\ env_OLDPWD = Unset
    /\ cd_status = 0
    /\ cd_log = <<>>

(* ------------------------------ aliases ------------------------------- *)
\* the longest alias value the model follows
MaxValues == 2
Words == {"alias", "=", "g", "ls", "-F"}
AliasNames == {"g", "ls"}
\* the words alias definitions are made of
ValueWords == {"ls", "-F"}

InitAlias ==
    /\ aliases = [k \in {} |-> <<>>]
    /\ args = <<"alias">>
    /\ actual_args = <<"alias">>
    /\ builtin_ret = 0

(* ---------------------------- descriptors ----------------------------- *)
\* the most commands of a pipeline
MaxCmds == 3
STDIN_FILENO == 0
STDOUT_FILENO == 1
STDERR_FILENO == 2
\* an open file: an end of the pipe-th pipe of the pipeline, or the terminal
Tty == [pipe |-> 0, end |-> "tty"]
\* a descriptor: the file, the file's status flags, the descriptor's FD_CLOEXEC
TtyFd == [file |-> Tty, flags |-> {"O_RDWR"}, cloexec |-> FALSE]
Stdio == [fd \in {STDIN_FILENO, STDOUT_FILENO, STDERR_FILENO} |-> TtyFd]

InitPipe ==
    /\ pl_stack = <<>>
    /\ fds = Stdio
    /\ npipes = 0
    /\ children = <<>>

(* ------------------------------ strings ------------------------------- *)
\* the most parts of a string, and the most bytes of a part
MaxParts == 2
MaxBytes == 2
\* HOME's value when it is set, and the mark of a HOME that is not
HomeBytes == <<"/", "h">>
NoHome == <<"unset">>

InitStr(h) ==
    /\ home = h
    /\ parts = <<>>
    /\ part_i = 0
    /\ buf = <<>>
    /\ str_at = "idle"
    /\ str_ret = <<>>

(* ------------------------------ grammar ------------------------------- *)
\* the longest text the model hands to the parser
MaxText == 5
\* a rule that did not match, and one that matched up to (not including) position p
NoMatch == [ok |-> FALSE, pos |-> 0, val |-> <<>>]
Matched(p, v) == [ok |-> TRUE, pos |-> p, val |-> v]

InitParse ==
    /\ src = <<>>
    /\ ast = NoMatch

\* the character classes of the grammar; of the letters and digits, those the texts use
WsChars == {" ", "\t", "\n", "\r"}
IdentStart == {"a", "b", "_"}
IdentChars == IdentStart \cup {"0"}
RawExcluded == {"\\", " ", "\t", "\n", "@", ";", "&", "|", "$", "(", ")", "[", "]", "'", "\"",
                "=", "?", "{", "}"}
Escapable_no_dollar == (RawExcluded \cup {"*"}) \ {"$"}
Escapable == RawExcluded \cup {"*"}

\* the literal s stands at position i of t
Literal(t, i, s) == i + Len(s) - 1 <= Len(t) /\ SubSeq(t, i, i + Len(s) - 1) = s

\* ws()*: the position after the white space at i
RECURSIVE parser_ws(_, _)
parser_ws(t, i) == IF i <= Len(t) /\ t[i] \in WsChars THEN parser_ws(t, i + 1) ELSE i

RECURSIVE IdentEnd(_, _)
IdentEnd(t, i) == IF i <= Len(t) /\ t[i] \in IdentChars THEN IdentEnd(t, i + 1) ELSE i

parser_ident(t, i) ==
    IF i <= Len(t) /\ t[i] \in IdentStart
    THEN Matched(IdentEnd(t, i + 1), SubSeq(t, i, IdentEnd(t, i + 1) - 1))
    ELSE NoMatch

\* the value of a rule applied once: the element of a one-element set
One(S) == CHOOSE r \in S : TRUE

parser_variable(t, i) ==
    One({IF Literal(t, i, <<"$", "{">>) /\ braced.ok /\ Literal(t, braced.pos, <<"}">>)
         THEN Matched(braced.pos + 1, braced.val)
         ELSE IF Literal(t, i, <<"$">>) /\ plain.ok THEN plain
         ELSE NoMatch : braced \in {parser_ident(t, i + 2)}, plain \in {parser_ident(t, i + 1)}})

parser_raw_char(t, i) ==
    IF i + 1 <= Len(t) /\ t[i] = "\\" /\ t[i + 1] \in Escapable THEN Matched(i + 2, t[i + 1])
    ELSE IF i <= Len(t) /\ t[i] \notin RawExcluded THEN Matched(i + 1, t[i])
    ELSE IF ~Literal(t, i, <<"=", "(">>) /\ Literal(t, i, <<"=">>) THEN Matched(i + 1, "=")
    ELSE IF ~Literal(t, i, <<"?", "(">>) /\ Literal(t, i, <<"?">>) THEN Matched(i + 1, "?")
    ELSE NoMatch

\* raw_char()+ collected into Chars
RECURSIVE RawChars(_, _, _)
RawChars(t, i, acc) ==
    One({IF c.ok THEN RawChars(t, c.pos, Append(acc, c.val))
         ELSE IF acc = <<>> THEN NoMatch
         ELSE Matched(i, <<"Chars", acc>>) : c \in {parser_raw_char(t, i)}})

single_quoted_char(t, i) ==
    IF Literal(t, i, <<"\\", "'">>) THEN Matched(i + 2, "'")
    ELSE IF Literal(t, i, <<"\\", "\\">>) THEN Matched(i + 2, "\\")
    ELSE IF i <= Len(t) /\ t[i] # "'" THEN Matched(i + 1, t[i])
    ELSE NoMatch

RECURSIVE SingleQuotedChars(_, _, _)
SingleQuotedChars(t, i, acc) ==
    One({IF c.ok THEN SingleQuotedChars(t, c.pos, Append(acc, c.val))
         ELSE Matched(i, acc) : c \in {single_quoted_char(t, i)}})

single_quoted(t, i) ==
    IF ~Literal(t, i, <<"'">>) THEN NoMatch
    ELSE One({IF Literal(t, chars.pos, <<"'">>) THEN Matched(chars.pos + 1, chars.val)
              ELSE NoMatch : chars \in {SingleQuotedChars(t, i + 1, <<>>)}})

double_quoted_char(t, i) ==
    IF Literal(t, i, <<"\\", "\"">>) THEN Matched(i + 2, "\"")
    ELSE IF Literal(t, i, <<"\\", "\\">>) THEN Matched(i + 2, "\\")
    ELSE IF Literal(t, i, <<"\\", "$">>) THEN Matched(i + 2, "$")
    ELSE IF i <= Len(t) /\ t[i] \notin {"\"", "$"} THEN Matched(i + 1, t[i])
    ELSE NoMatch

RECURSIVE DoubleQuotedChars(_, _, _)
DoubleQuotedChars(t, i, acc) ==
    One({IF c.ok THEN DoubleQuotedChars(t, c.pos, Append(acc, c.val))
         ELSE IF acc = <<>> THEN NoMatch
         ELSE Matched(i, <<"Chars", acc>>) : c \in {double_quoted_char(t, i)}})

RECURSIVE parser_list(_, _)
RECURSIVE parser_pipeline(_, _)

parser_subshell(t, i) ==
    IF ~Literal(t, i, <<"(">>) THEN NoMatch
    ELSE One({IF l.ok /\ Literal(t, l.pos, <<")">>) THEN Matched(l.pos + 1, l.val)
              ELSE NoMatch : l \in {parser_list(t, i + 1)}})

\* one alternative of expansion(): a mark and a subshell
Subst(t, i, mark, kind) ==
    IF ~Literal(t, i, mark) THEN NoMatch
    ELSE One({IF sub.ok THEN Matched(sub.pos, <<"Expansion", kind, sub.val>>)
              ELSE NoMatch : sub \in {parser_subshell(t, i + Len(mark))}})

\* the first of the rules' results that matched, or the last
RECURSIVE FirstMatch(_)
FirstMatch(rs) == IF Len(rs) = 1 \/ Head(rs).ok THEN Head(rs) ELSE FirstMatch(Tail(rs))

parser_expansion(t, i) ==
    One({FirstMatch(<<both, err, out, name, status,
                      IF var.ok THEN Matched(var.pos, <<"Expansion", "Variable", var.val>>)
                      ELSE NoMatch>>) :
            both \in {Subst(t, i, <<"$", "&">>, "SubstBoth")},
            err \in {Subst(t, i, <<"$", "!">>, "SubstStderr")},
            out \in {Subst(t, i, <<"$">>, "SubstStdout")},
            name \in {Subst(t, i, <<"=">>, "SubstPipeName")},
            status \in {Subst(t, i, <<"?">>, "SubstStatus")},
            var \in {parser_variable(t, i)}})

raw_str_part(t, i) ==
    One({IF e.ok THEN e ELSE RawChars(t, i, <<>>) : e \in {parser_expansion(t, i)}})

double_quoted_str_part(t, i) ==
    One({IF e.ok THEN e ELSE DoubleQuotedChars(t, i, <<>>) : e \in {parser_expansion(t, i)}})

\* raw_str_part()+
RECURSIVE parser_raw(_, _, _)
parser_raw(t, i, acc) ==
    One({IF p.ok THEN parser_raw(t, p.pos, Append(acc, p.val))
         ELSE IF acc = <<>> THEN NoMatch
         ELSE Matched(i, acc) : p \in {raw_str_part(t, i)}})

\* double_quoted_str_part()*
RECURSIVE DoubleQuotedParts(_, _, _)
DoubleQuotedParts(t, i, acc) ==
    One({IF p.ok THEN DoubleQuotedParts(t, p.pos, Append(acc, p.val))
         ELSE Matched(i, acc) : p \in {double_quoted_str_part(t, i)}})

double_quoted(t, i) ==
    IF ~Literal(t, i, <<"\"">>) THEN NoMatch
    ELSE One({IF Literal(t, ps.pos, <<"\"">>) THEN Matched(ps.pos + 1, ps.val)
              ELSE NoMatch : ps \in {DoubleQuotedParts(t, i + 1, <<>>)}})

parser_string_at(t, i) ==
    One({IF sq.ok THEN Matched(sq.pos, << <<"Chars", sq.val>> >>)
         ELSE IF dq.ok THEN dq
         ELSE parser_raw(t, i, <<>>) : sq \in {single_quoted(t, i)}, dq \in {double_quoted(t, i)}})

parser_arguments(t, i) ==
    One({IF at.ok THEN Matched(parser_ws(t, at.pos), <<"AtExpansion", at.val>>)
         ELSE One({IF arg.ok THEN Matched(parser_ws(t, arg.pos), <<"Arg", arg.val>>)
                   ELSE NoMatch : arg \in {parser_string_at(t, parser_ws(t, i))}}) :
            at \in {IF Literal(t, parser_ws(t, i), <<"@">>)
                    THEN parser_string_at(t, parser_ws(t, i) + 1)
                    ELSE NoMatch}})

\* arguments()+
RECURSIVE simple_command_at(_, _, _)
simple_command_at(t, i, acc) ==
    One({IF a.ok THEN simple_command_at(t, a.pos, Append(acc, a.val))
         ELSE IF acc = <<>> THEN NoMatch
         ELSE Matched(i, acc) : a \in {parser_arguments(t, i)}})

parser_command(t, i) ==
    One({IF sub.ok THEN Matched(parser_ws(t, sub.pos), <<"SubShell", sub.val>>)
         ELSE One({IF cmd.ok THEN Matched(cmd.pos, <<"Simple", cmd.val>>)
                   ELSE NoMatch : cmd \in {simple_command_at(t, i, <<>>)}}) :
            sub \in {parser_subshell(t, parser_ws(t, i))}})

\* pipe() with "|" tried before the two-character operators
parser_pipe_short(t, i) ==
    LET w == parser_ws(t, i)
    IN  IF Literal(t, w, <<"|">>) THEN Matched(parser_ws(t, w + 1), "Stdout")
        ELSE IF Literal(t, w, <<"|", "&">>) THEN Matched(parser_ws(t, w + 2), "Both")
        ELSE IF Literal(t, w, <<"|", "!">>) THEN Matched(parser_ws(t, w + 2), "Stderr")
        ELSE NoMatch

parser_pipe(t, i) ==
    LET w == parser_ws(t, i)
    IN  IF Literal(t, w, <<"|", "&">>) THEN Matched(parser_ws(t, w + 2), "Both")
        ELSE IF Literal(t, w, <<"|", "!">>) THEN Matched(parser_ws(t, w + 2), "Stderr")
        ELSE IF Literal(t, w, <<"|">>) THEN Matched(parser_ws(t, w + 1), "Stdout")
        ELSE NoMatch

\* the tail of a Connected pipeline: pipe() and the pipeline to its right
Connected(t, i, lhs) ==
    One({IF ~pipe.ok THEN NoMatch
         ELSE One({IF rhs.ok THEN Matched(rhs.pos, <<"Connected", pipe.val, lhs, rhs.val>>)
                   ELSE NoMatch : rhs \in {parser_pipeline(t, pipe.pos)}}) :
            pipe \in {parser_pipe(t, i)}})

\* a pipeline that has matched as the left side of a Connected, or by itself
Tailed(t, pos, lhs) ==
    One({IF c.ok THEN c ELSE Matched(pos, lhs) : c \in {Connected(t, pos, lhs)}})

parser_pipeline(t, i) ==
    One({IF braced.ok /\ Literal(t, braced.pos, <<"}">>)
         THEN Tailed(t, braced.pos + 1, braced.val)
         ELSE One({IF cmd.ok THEN Tailed(t, cmd.pos, <<"Single", cmd.val>>)
                   ELSE NoMatch : cmd \in {parser_command(t, i)}}) :
            braced \in {IF Literal(t, i, <<"{">>) THEN parser_pipeline(t, i + 1) ELSE NoMatch}})

parser_list_followings(t, i) ==
    IF Literal(t, i, <<";">>)
    THEN One({IF p.ok THEN Matched(p.pos, <<"Always", p.val>>) ELSE NoMatch :
                p \in {parser_pipeline(t, i + 1)}})
    ELSE IF Literal(t, i, <<"&", "&">>)
    THEN One({IF p.ok THEN Matched(p.pos, <<"IfSuccess", p.val>>) ELSE NoMatch :
                p \in {parser_pipeline(t, i + 2)}})
    ELSE IF Literal(t, i, <<"|", "|">>)
    THEN One({IF p.ok THEN Matched(p.pos, <<"IfError", p.val>>) ELSE NoMatch :
                p \in {parser_pipeline(t, i + 2)}})
    ELSE NoMatch

\* list_followings()*
RECURSIVE Followings(_, _, _)
Followings(t, i, acc) ==
    One({IF f.ok THEN Followings(t, f.pos, Append(acc, f.val))
         ELSE Matched(i, acc) : f \in {parser_list_followings(t, i)}})

parser_list(t, i) ==
    One({IF ~first.ok THEN NoMatch
         ELSE One({Matched(rest.pos, <<"List", first.val, rest.val>>) :
                      rest \in {Followings(t, first.pos, <<>>)}}) :
            first \in {parser_pipeline(t, i)}})

\* a public rule matches the whole text or fails
Whole(t, r) == IF r.ok /\ r.pos = Len(t) + 1 THEN r ELSE NoMatch

parser_toplevel(t) == Whole(t, parser_list(t, 1))
parser_string(t) == Whole(t, parser_string_at(t, 1))

(* -------------------------------- Line -------------------------------- *)
\* CharClass::from; of the characters that are neither white space nor alphanumeric,
\* those the model's keys can type
OtherChars == {"(", ")", "$", "^", ";", "/", "-", "\""}
CharClass(ch) ==
    IF ch \in WsChars THEN "WhiteSpace"
    ELSE IF ch \in OtherChars THEN "Other"
    ELSE "Keyword"
is_same(rough, a, b) ==
    IF rough THEN (a = "WhiteSpace") = (b = "WhiteSpace") ELSE a = b

\* a Line: the characters and the cursor, which counts the characters before it
Line_new == [buf |-> <<>>, cursor |-> 0]
Line_from(s) == [buf |-> s, cursor |-> 0]
char_at(l, at) == IF at < Len(l.buf) THEN <<l.buf[at + 1]>> ELSE <<>>

\* the loops of line.rs: step left from i while the character before i is of class c,
\* step right from i, below limit, while the character at i (or after it) is
RECURSIVE Back(_, _, _, _)
Back(b, i, rough, c) ==
    IF i > 0 /\ is_same(rough, CharClass(b[i]), c) THEN Back(b, i - 1, rough, c) ELSE i
RECURSIVE Forth(_, _, _, _, _)
Forth(b, i, limit, rough, c) ==
    IF i < limit /\ is_same(rough, CharClass(b[i + 1]), c)
    THEN Forth(b, i + 1, limit, rough, c)
    ELSE i
RECURSIVE ForthNext(_, _, _, _)
ForthNext(b, i, rough, c) ==
    IF i + 1 < Len(b) /\ is_same(rough, CharClass(b[i + 2]), c)
    THEN ForthNext(b, i + 1, rough, c)
    ELSE i

insert(l, ch) ==
    [buf |-> SubSeq(l.buf, 1, l.cursor) \o <<ch>> \o SubSeq(l.buf, l.cursor + 1, Len(l.buf)),
     cursor |-> l.cursor + 1]
RECURSIVE insert_all(_, _)
insert_all(l, text) ==
    IF text = <<>> THEN l ELSE insert_all(insert(l, Head(text)), Tail(text))
delete_prev(l) ==
    IF l.cursor > 0
    THEN [buf |-> SubSeq(l.buf, 1, l.cursor - 1) \o SubSeq(l.buf, l.cursor + 1, Len(l.buf)),
          cursor |-> l.cursor - 1]
    ELSE l
RECURSIVE delete_prev_times(_, _)
delete_prev_times(l, n) == IF n = 0 THEN l ELSE delete_prev_times(delete_prev(l), n - 1)
delete_next(l) ==
    IF l.cursor < Len(l.buf)
    THEN [l EXCEPT !.buf = SubSeq(l.buf, 1, l.cursor) \o SubSeq(l.buf, l.cursor + 2, Len(l.buf))]
    ELSE l
delete_word(l) ==
    LET spaces == l.cursor - Back(l.buf, l.cursor, TRUE, "WhiteSpace")
        trimmed == delete_prev_times(l, spaces)
        word == trimmed.cursor
                - Back(trimmed.buf, trimmed.cursor, FALSE, CharClass(trimmed.buf[trimmed.cursor]))
    IN  IF trimmed.cursor = 0 THEN trimmed ELSE delete_prev_times(trimmed, word)
delete_line(l) == Line_new
\* delete_range asserts from <= to
delete_range(l, from, to) ==
    [buf |-> SubSeq(l.buf, 1, from) \o SubSeq(l.buf, to + 1, Len(l.buf)), cursor |-> from]

cursor_prev_char(l) == IF l.cursor > 0 THEN [l EXCEPT !.cursor = l.cursor - 1] ELSE l
cursor_next_char(l) == IF l.cursor < Len(l.buf) THEN [l EXCEPT !.cursor = l.cursor + 1] ELSE l
RECURSIVE MatchBack(_, _, _)
MatchBack(b, i, target) ==
    IF i <= 0 THEN -1 ELSE IF b[i + 1] = target THEN i ELSE MatchBack(b, i - 1, target)
RECURSIVE MatchForth(_, _, _)
MatchForth(b, i, target) ==
    IF i >= Len(b) THEN -1 ELSE IF b[i + 1] = target THEN i ELSE MatchForth(b, i + 1, target)
cursor_prev_char_match(l, target) ==
    IF MatchBack(l.buf, l.cursor - 1, target) >= 0
    THEN [l EXCEPT !.cursor = MatchBack(l.buf, l.cursor - 1, target)]
    ELSE l
cursor_next_char_match(l, target) ==
    IF MatchForth(l.buf, l.cursor + 1, target) >= 0
    THEN [l EXCEPT !.cursor = MatchForth(l.buf, l.cursor + 1, target)]
    ELSE l
cursor_prev_word_head(l, wide) ==
    LET c == Back(l.buf, l.cursor, TRUE, "WhiteSpace")
    IN  IF c = 0 THEN [l EXCEPT !.cursor = 0]
        ELSE [l EXCEPT !.cursor = Back(l.buf, c, wide, CharClass(l.buf[c]))]
cursor_next_word_head(l, wide) ==
    LET len == Len(l.buf)
        c == Forth(l.buf, l.cursor, len - 1, wide, CharClass(l.buf[l.cursor + 1]))
    IN  IF l.cursor = len THEN l
        ELSE [l EXCEPT !.cursor = Forth(l.buf, c, len - 1, TRUE, "WhiteSpace")]
cursor_next_word_end(l, wide) ==
    LET len == Len(l.buf)
        c == Forth(l.buf, cursor_next_char(l).cursor, len - 1, TRUE, "WhiteSpace")
    IN  IF c = len THEN [l EXCEPT !.cursor = c]
        ELSE [l EXCEPT !.cursor = ForthNext(l.buf, c, wide, CharClass(l.buf[c + 1]))]
cursor_end_of_line(l) == [l EXCEPT !.cursor = Len(l.buf)]
cursor_begin_of_line(l) == [l EXCEPT !.cursor = Forth(l.buf, 0, Len(l.buf), TRUE, "WhiteSpace")]
cursor_exact(l, pos) == [l EXCEPT !.cursor = pos]
normal_mode_fix_cursor(l) ==
    IF l.cursor >= Len(l.buf)
    THEN [l EXCEPT !.cursor = IF Len(l.buf) = 0 THEN 0 ELSE Len(l.buf) - 1]
    ELSE l

(* ---------------------------- text objects ---------------------------- *)
\* step left from i until the character before i (at i, for `An`) is ch
\* a search for the opening character that starts at the end of the line
PairBack_from_end(b, i, ch, at) ==
    IF \E k \in 1..Len(b) : b[k] = ch
    THEN (CHOOSE k \in 1..Len(b) : b[k] = ch /\ \A j \in (k + 1)..Len(b) : b[j] # ch) - at
    ELSE 0
RECURSIVE PairBack(_, _, _, _)
PairBack(b, i, ch, at) ==
    IF i > 0 /\ b[i + at] # ch THEN PairBack(b, i - 1, ch, at) ELSE i
RECURSIVE PairForth(_, _, _)
PairForth(b, i, ch) ==
    IF i < Len(b) /\ b[i + 1] # ch THEN PairForth(b, i + 1, ch) ELSE i

\* find_range: the range <<from, to>> of the object at the cursor; char_at(i).unwrap()
\* of the `An` pair panics when the cursor is past the last character
find_range(l, selector, object) ==
    LET b == l.buf
        len == Len(b)
        cursor == l.cursor
        wide == object[2]
        word_class == CharClass(b[cursor + 1])
        word_from == Back(b, cursor, wide, word_class)
        word_to == Forth(b, cursor, len, wide, word_class)
        pair_to == PairForth(b, cursor, object[3])
    IN  IF object[1] = "Word"
        THEN IF cursor >= len THEN <<0, 0>>
             ELSE IF selector = "Inside" THEN <<word_from, word_to>>
             ELSE <<Back(b, word_from, TRUE, "WhiteSpace"),
                    Forth(b, word_to, len, TRUE, "WhiteSpace")>>
        ELSE IF selector = "Inside" THEN <<PairBack(b, cursor, object[2], 0), pair_to>>
        ELSE <<PairBack(b, cursor, object[2], 1), IF pair_to < len THEN pair_to + 1 ELSE pair_to>>

\* the quotes are their own partners (the back quote, a third one, is not typed here)
parse_vim_text_object(sel, obj) ==
    LET selector == IF sel = "i" THEN "Inside" ELSE IF sel = "a" THEN "An" ELSE "None"
        object ==
            IF obj = "w" THEN <<"Word", FALSE>>
            ELSE IF obj = "W" THEN <<"Word", TRUE>>
            ELSE IF obj \in {"(", ")"} THEN <<"Pair", "(", ")">>
            ELSE IF obj \in {"[", "]"} THEN <<"Pair", "[", "]">>
            ELSE IF obj \in {"<", ">"} THEN <<"Pair", "<", ">">>
            ELSE IF obj \in {"{", "}"} THEN <<"Pair", "{", "}">>
            ELSE IF obj \in {"'", "\""} THEN <<"Pair", obj, obj>>
            ELSE <<"None">>
    IN  IF selector = "None" \/ object = <<"None">> THEN <<>> ELSE <<selector, object>>

(* ------------------------------- modes -------------------------------- *)
\* VisualMode::new_line's origin, isize::MIN in the source
LineModeOrigin == -1
\* a Mode: the variant and the fields of the variants
InsertMode_default ==
    [kind |-> "Insert", combo |-> <<>>, last_find |-> <<>>, origin |-> 0, query |-> Line_new]
NormalMode_default == [InsertMode_default EXCEPT !.kind = "Normal"]
VisualMode_new_char(origin) == [InsertMode_default EXCEPT !.kind = "Visual", !.origin = origin]
VisualMode_new_line == VisualMode_new_char(LineModeOrigin)
SearchMode_new == [InsertMode_default EXCEPT !.kind = "Search"]
is_insert(m) == m.kind \in {"Insert", "Search"}

\* what process_event leaves: the mode and the commands pushed
Processed(m, cmds) == [mode |-> m, cmds |-> cmds]
Char(ch) == <<"Char", ch>>
Ctrl(ch) == <<"Ctrl", ch>>
Key(name) == <<"Key", name>>
MakeCheckPoint == <<"MakeCheckPoint">>
RegisterStore(text) == <<"RegisterStore", "\"", text>>
DeleteRange(from, to) == <<"DeleteRange", from, to>>
\* line.iter(from..to) collected; the range must lie in the line
Selected(l, from, to) == SubSeq(l.buf, from + 1, to)

\* S without the RegisterStore the other deletions push
NormalMode_S(l) == <<MakeCheckPoint, <<"DeleteLine">>, <<"ChangeModeToInsert">> >>

NormalMode_process_text_object(m, event, l) ==
    LET combo == IF event[1] = "Char" THEN Append(m.combo, event[2]) ELSE <<>>
        parsed == parse_vim_text_object(combo[2], combo[3])
        range == find_range(l, parsed[1], parsed[2])
        from == range[1]
        to == range[2]
        stored == RegisterStore(Selected(l, from, to))
        cleared == [m EXCEPT !.combo = <<>>]
    IN  IF Len(combo) < 3 THEN Processed([m EXCEPT !.combo = combo], <<>>)
        ELSE IF parsed = <<>> THEN Processed(cleared, <<>>)
        ELSE IF combo[1] = "d"
        THEN Processed(cleared, <<MakeCheckPoint, stored, DeleteRange(from, to)>>)
        ELSE IF combo[1] = "c"
        THEN Processed(cleared, <<MakeCheckPoint, stored, DeleteRange(from, to),
                                  <<"ChangeModeToInsert">> >>)
        ELSE Processed(cleared, <<stored, <<"CursorExact", from>> >>)

\* NormalMode::process_event without a pending combo
NormalMode_key(m, event, l) ==
    LET at_cursor == char_at(l, l.cursor)
        store_char == IF at_cursor = <<>> THEN <<>> ELSE <<RegisterStore(at_cursor)>>
        to_end == RegisterStore(Selected(l, l.cursor, Len(l.buf)))
        cmds ==
            IF event = Char("i") THEN <<MakeCheckPoint, <<"ChangeModeToInsert">> >>
            ELSE IF event = Char("v") THEN << <<"ChangeModeToVisualChar">> >>
            ELSE IF event = Char("V") THEN << <<"ChangeModeToVisualLine">> >>
            ELSE IF event = Key("Return") THEN << <<"Commit">> >>
            ELSE IF event \in {Key("Left"), Char("h")} THEN << <<"CursorPrevChar">> >>
            ELSE IF event \in {Key("Right"), Char("l")} THEN << <<"CursorNextChar">> >>
            ELSE IF event \in {Key("Up"), Char("k")} THEN << <<"HistoryPrev">> >>
            ELSE IF event \in {Key("Down"), Char("j")} THEN << <<"HistoryNext">> >>
            ELSE IF event = Char("w") THEN << <<"CursorNextWordHead">> >>
            ELSE IF event = Char("W") THEN << <<"CursorNextWordHeadWide">> >>
            ELSE IF event = Char("e") THEN << <<"CursorNextWordEnd">> >>
            ELSE IF event = Char("E") THEN << <<"CursorNextWordEndWide">> >>
            ELSE IF event = Char("b") THEN << <<"CursorPrevWordHead">> >>
            ELSE IF event = Char("B") THEN << <<"CursorPrevWordHeadWide">> >>
            ELSE IF event = Char(";") /\ m.last_find # <<>>
            THEN << <<IF m.last_find[1] = "f" THEN "CursorNextCharMatch"
                      ELSE "CursorPrevCharMatch", m.last_find[2]>> >>
            ELSE IF event = Char("$") THEN << <<"CursorEnd">> >>
            ELSE IF event = Char("^") THEN << <<"CursorBegin">> >>
            ELSE IF event = Char("0") THEN << <<"CursorExact", 0>> >>
            ELSE IF event = Char("A")
            THEN <<MakeCheckPoint, <<"ChangeModeToInsert">>, <<"CursorEnd">> >>
            ELSE IF event = Char("I")
            THEN <<MakeCheckPoint, <<"ChangeModeToInsert">>, <<"CursorBegin">> >>
            ELSE IF event = Char("a")
            THEN <<MakeCheckPoint, <<"ChangeModeToInsert">>, <<"CursorNextChar">> >>
            ELSE IF event = Char("s")
            THEN <<MakeCheckPoint>> \o store_char
                 \o << <<"ChangeModeToInsert">>, <<"DeleteNextChar">> >>
            ELSE IF event = Char("x")
            THEN <<MakeCheckPoint>> \o store_char \o << <<"DeleteNextChar">> >>
            ELSE IF event = Char("D")
            THEN <<MakeCheckPoint, to_end, DeleteRange(l.cursor, Len(l.buf))>>
            ELSE IF event = Char("C")
            THEN <<MakeCheckPoint, to_end, <<"ChangeModeToInsert">>,
                   DeleteRange(l.cursor, Len(l.buf))>>
            ELSE IF event = Char("S") THEN NormalMode_S(l)
            ELSE IF event = Char("Y") THEN <<RegisterStore(l.buf)>>
            ELSE IF event = Char("P") THEN <<MakeCheckPoint, <<"RegisterPastePrev", "\"">> >>
            ELSE IF event = Char("p") THEN <<MakeCheckPoint, <<"RegisterPasteNext", "\"">> >>
            ELSE IF event = Char("u") THEN << <<"Undo">> >>
            ELSE IF event = Ctrl("r") THEN << <<"Redo">> >>
            ELSE IF event = Ctrl("o") THEN << <<"CdUndo">> >>
            ELSE IF event = Key("Tab") THEN << <<"CdRedo">> >>
            ELSE IF event = Ctrl("p") THEN << <<"CdToParent">> >>
            ELSE <<>>
    IN  IF event \in {Char("f"), Char("F"), Char("d"), Char("c"), Char("y")}
        THEN Processed([m EXCEPT !.combo = <<event[2]>>], <<>>)
        ELSE Processed(m, cmds)

NormalMode_process_event(m, event, l) ==
    LET first == m.combo[1]
        cleared == [m EXCEPT !.combo = <<>>]
        whole == <<RegisterStore(l.buf)>>
    IN  IF m.combo = <<>> THEN NormalMode_key(m, event, l)
        ELSE IF first \in {"d", "c", "y"} /\ Len(m.combo) = 1 /\ event = Char(first)
        THEN Processed(cleared,
                 IF first = "d" THEN <<MakeCheckPoint>> \o whole \o << <<"DeleteLine">> >>
                 ELSE IF first = "c"
                 THEN <<MakeCheckPoint>> \o whole
                      \o << <<"DeleteLine">>, <<"ChangeModeToInsert">> >>
                 ELSE whole)
        ELSE IF first \in {"d", "c", "y"} THEN NormalMode_process_text_object(m, event, l)
        ELSE IF event[1] = "Char"
        THEN Processed([cleared EXCEPT !.last_find = <<first, event[2]>>],
                       << <<IF first = "f" THEN "CursorNextCharMatch"
                            ELSE "CursorPrevCharMatch", event[2]>> >>)
        ELSE Processed([cleared EXCEPT !.last_find = <<>>], <<>>)

SearchMode_process_event(m, event, l) ==
    LET to_insert == <<"ChangeModeToInsert">>
        search(q, reset) == Processed([m EXCEPT !.query = q], << <<"HistorySearch", q.buf, reset>> >>)
    IN  IF event \in {Key("Escape"), Key("Tab"), Ctrl("u"), Ctrl("d")}
        THEN Processed(m, <<to_insert>>)
        ELSE IF event = Key("Return") THEN Processed(m, <<to_insert, <<"Commit">> >>)
        ELSE IF event = Key("Left") THEN Processed(m, <<to_insert, <<"CursorPrevChar">> >>)
        ELSE IF event = Key("Right") THEN Processed(m, <<to_insert, <<"CursorNextChar">> >>)
        ELSE IF event = Key("Up") THEN Processed(m, <<to_insert, <<"HistoryPrev">> >>)
        ELSE IF event = Key("Down") THEN Processed(m, <<to_insert, <<"HistoryNext">> >>)
        ELSE IF event[1] = "Char" THEN search(insert(m.query, event[2]), TRUE)
        ELSE IF event = Key("Backspace") THEN search(delete_prev(m.query), TRUE)
        ELSE IF event = Ctrl("w") THEN search(delete_word(m.query), TRUE)
        ELSE IF event = Ctrl("r") THEN search(m.query, FALSE)
        ELSE Processed(m, <<>>)

\* Ctrl-n pushes Command::DuplicateWord, a command read_line has no arm for
InsertMode_process_event(m, event, l) ==
    Processed(m,
        IF event = Key("Escape") THEN << <<"CursorPrevChar">>, <<"ChangeModeToNormal">> >>
        ELSE IF event = Key("Return") THEN << <<"Commit">> >>
        ELSE IF event = Key("Left") THEN << <<"CursorPrevChar">> >>
        ELSE IF event = Key("Right") THEN << <<"CursorNextChar">> >>
        ELSE IF event = Key("Up") THEN << <<"HistoryPrev">> >>
        ELSE IF event = Key("Down") THEN << <<"HistoryNext">> >>
        ELSE IF event[1] = "Char" THEN << <<"Insert", event[2]>> >>
        ELSE IF event = Key("Backspace") THEN << <<"DeletePrevChar">> >>
        ELSE IF event = Key("Delete") THEN << <<"DeleteNextChar">> >>
        ELSE IF event = Ctrl("w") THEN << <<"DeletePrevWord">> >>
        ELSE IF event = Ctrl("u") THEN << <<"DeleteLine">> >>
        ELSE IF event = Key("Tab") THEN << <<"TryCompleteFilename">> >>
        ELSE IF event = Ctrl("d") THEN << <<"DisplayCompletionCandidate">> >>
        ELSE IF event = Ctrl("p") THEN << <<"CdToParent">> >>
        ELSE IF event = Ctrl("o") THEN << <<"CdUndo">> >>
        ELSE IF event = Ctrl("r") THEN << <<"ChangeModeToSearch">> >>
        ELSE IF event = Ctrl("n") THEN << <<"DuplicateWord">> >>
        ELSE <<>>)

is_line_mode(m) == m.origin = LineModeOrigin

VisualMode_process_text_object(m, event, l) ==
    LET combo == IF event[1] = "Char" THEN Append(m.combo, event[2]) ELSE <<>>
        parsed == parse_vim_text_object(combo[1], combo[2])
        range == find_range(l, parsed[1], parsed[2])
        cleared == [m EXCEPT !.combo = <<>>]
    IN  IF Len(combo) < 2 THEN Processed([m EXCEPT !.combo = combo], <<>>)
        ELSE IF parsed # <<>> /\ range[2] > range[1]
        THEN Processed([cleared EXCEPT !.origin = range[1]], << <<"CursorExact", range[2] - 1>> >>)
        ELSE Processed(cleared, <<>>)

\* line.iter(from..to) panics when the range ends past the line: the pseudo-command Panic
VisualMode_process_event(m, event, l) ==
    LET from == IF m.origin > l.cursor THEN l.cursor ELSE m.origin
        to == (IF m.origin > l.cursor THEN m.origin ELSE l.cursor) + 1
        whole == RegisterStore(l.buf)
        part == RegisterStore(Selected(l, from, to))
        to_normal == <<"ChangeModeToNormal">>
        to_insert == <<"ChangeModeToInsert">>
        delete_line_cmd == <<"DeleteLine">>
        cmds ==
            IF /\ event \in {Char("d"), Char("x"), Char("c"), Char("s"), Char("y")}
               /\ ~is_line_mode(m) /\ to > Len(l.buf)
            THEN << <<"Panic">> >>
            ELSE IF event \in {Key("Escape"), Char("v")} THEN <<to_normal>>
            ELSE IF event = Key("Return") THEN << <<"Commit">> >>
            ELSE IF event \in {Key("Left"), Char("h")} THEN << <<"CursorPrevChar">> >>
            ELSE IF event \in {Key("Right"), Char("l")} THEN << <<"CursorNextChar">> >>
            ELSE IF event = Char("w") THEN << <<"CursorNextWordHead">> >>
            ELSE IF event = Char("W") THEN << <<"CursorNextWordHeadWide">> >>
            ELSE IF event = Char("e") THEN << <<"CursorNextWordEnd">> >>
            ELSE IF event = Char("E") THEN << <<"CursorNextWordEndWide">> >>
            ELSE IF event = Char("b") THEN << <<"CursorPrevWordHead">> >>
            ELSE IF event = Char("B") THEN << <<"CursorPrevWordHeadWide">> >>
            ELSE IF event = Char("o") /\ ~is_line_mode(m) THEN << <<"CursorExact", m.origin>> >>
            ELSE IF event = Char("$") THEN << <<"CursorEnd">> >>
            ELSE IF event = Char("^") THEN << <<"CursorBegin">> >>
            ELSE IF event = Char("0") THEN << <<"CursorExact", 0>> >>
            ELSE IF event = Char("D") THEN <<MakeCheckPoint, whole, delete_line_cmd, to_normal>>
            ELSE IF event \in {Char("C"), Char("S")}
            THEN <<MakeCheckPoint, whole, to_insert, delete_line_cmd>>
            ELSE IF event = Char("Y") THEN <<whole, to_normal>>
            ELSE IF event \in {Char("d"), Char("x")}
            THEN IF is_line_mode(m) THEN <<MakeCheckPoint, whole, delete_line_cmd, to_normal>>
                 ELSE <<MakeCheckPoint, part, DeleteRange(from, to), to_normal>>
            ELSE IF event \in {Char("c"), Char("s")}
            THEN IF is_line_mode(m) THEN <<MakeCheckPoint, to_insert, whole, delete_line_cmd>>
                 ELSE <<MakeCheckPoint, to_insert, part, DeleteRange(from, to)>>
            ELSE IF event = Char("y")
            THEN IF is_line_mode(m) THEN <<whole, delete_line_cmd, to_normal>>
                 ELSE <<part, to_normal>>
            ELSE <<>>
    IN  IF m.combo # <<>> THEN VisualMode_process_text_object(m, event, l)
        ELSE IF event \in {Char("i"), Char("a")}
        THEN Processed([m EXCEPT !.combo = <<event[2]>>], <<>>)
        ELSE IF event = Char("o") /\ ~is_line_mode(m)
        THEN Processed([m EXCEPT !.origin = l.cursor], cmds)
        ELSE Processed(m, cmds)

process_event(m, event, l) ==
    IF m.kind = "Insert" THEN InsertMode_process_event(m, event, l)
    ELSE IF m.kind = "Normal" THEN NormalMode_process_event(m, event, l)
    ELSE IF m.kind = "Visual" THEN VisualMode_process_event(m, event, l)
    ELSE SearchMode_process_event(m, event, l)

(* ----------------------------- completion ----------------------------- *)
\* the command names the shell listed, and the names in the working directory
Commands == << <<"f", "o">>, <<"f", "x">>, <<"g", "o">> >>
Files == << <<"f", "o", "o">> >>
IsPrefix(p, w) == Len(p) <= Len(w) /\ SubSeq(w, 1, Len(p)) = p
\* StaticWordCompletion::candidates: the items that start with the word, the word stripped
RECURSIVE strip_prefix_all(_, _)
strip_prefix_all(items, word) ==
    IF items = <<>> THEN <<>>
    ELSE (IF IsPrefix(word, Head(items))
          THEN <<SubSeq(Head(items), Len(word) + 1, Len(Head(items)))>>
          ELSE <<>>) \o strip_prefix_all(Tail(items), word)
\* split_ascii_whitespace, and a last empty word when the line ends with a space
RECURSIVE SplitWords(_, _)
SplitWords(t, word) ==
    IF t = <<>> THEN IF word = <<>> THEN <<>> ELSE <<word>>
    ELSE IF Head(t) \in WsChars
    THEN (IF word = <<>> THEN <<>> ELSE <<word>>) \o SplitWords(Tail(t), <<>>)
    ELSE SplitWords(Tail(t), Append(word, Head(t)))
WordsOf(t) ==
    SplitWords(t, <<>>) \o (IF t # <<>> /\ t[Len(t)] = " " THEN << <<>> >> ELSE <<>>)
\* CommandCompletion::candidates; the only rule is the one update_commands inserts for
\* sudo, and the fallback lists the working directory
candidates(words) ==
    IF words = <<>> THEN <<>>
    ELSE IF Len(words) <= 1 \/ words[1] = <<"s", "u", "d", "o">>
    THEN strip_prefix_all(Commands, words[Len(words)])
    ELSE strip_prefix_all(Files, words[Len(words)])

CompletionEngine_new == [candidates |-> <<>>, line |-> <<>>, dirty |-> 0]
CompletionEngine_update(c, l) ==
    IF c.line # l THEN [candidates |-> candidates(WordsOf(l)), line |-> l, dirty |-> 1] ELSE c
CompletionEngine_prev(c) ==
    IF c.dirty = 2 /\ c.candidates # <<>> THEN <<c.candidates[Len(c.candidates)]>> ELSE <<>>
CompletionEngine_next(c) ==
    IF c.candidates = <<>> THEN c
    ELSE [c EXCEPT !.dirty = 2, !.candidates = Append(Tail(c.candidates), Head(c.candidates))]

(* ------------------------------ read_line ----------------------------- *)
\* the terminal attributes the shell may hand over, and raw mode made of them
EdTermios == {"cooked", "job"}
Raw(t) == <<"raw", t>>

\* the LineEditor, the locals of read_line, the terminal, and what read_line returned;
\* after them what an observer notes: the attributes at entry, the line at the latest
\* checkpoint not followed by an undo or redo that took effect, the line the latest
\* command replaced if that was an Undo, the commands the latest key pushed, the line
\* at the first Tab of the latest run of Tab keys, the length of that run, and the
\* number of times the providers were asked since the run began
LineEditor_new ==
    [mode |-> InsertMode_default, registers |-> <<>>, line_history |-> <<>>,
     reading |-> FALSE, temporal |-> <<Line_new>>, row |-> 0,
     history_search_start_idx |-> 0, undo_stack |-> <<>>, redo_stack |-> <<>>,
     last_command |-> <<"Commit">>, completion |-> CompletionEngine_new,
     termios |-> "cooked", cursor_shape |-> "block", saved_termios |-> "cooked",
     result |-> <<>>,
     entry_termios |-> "cooked", checkpoint |-> <<>>, undone |-> <<>>, cmds |-> <<>>,
     tab_line |-> <<>>, tabs |-> 0, queries |-> 0]

current_line(e) == e.temporal[Len(e.temporal) + e.row]
SetLine(e, l) == [e EXCEPT !.temporal[Len(e.temporal) + e.row] = l]

new_line(m) == IF is_insert(m) THEN InsertMode_default ELSE NormalMode_default

\* read_line up to its loop
ReadLineEntered(e, t) ==
    [e EXCEPT !.reading = TRUE, !.result = <<>>,
              !.saved_termios = t, !.termios = Raw(t), !.entry_termios = t,
              !.mode = new_line(e.mode),
              !.temporal = <<Line_new>>, !.row = 0, !.history_search_start_idx = 0,
              !.undo_stack = IF is_insert(e.mode) THEN <<Line_new>> ELSE <<>>,
              !.redo_stack = <<>>,
              !.last_command = <<"Commit">>, !.completion = CompletionEngine_new,
              !.checkpoint = <<>>, !.undone = <<>>, !.cmds = <<>>,
              !.tab_line = <<>>, !.tabs = 0, !.queries = 0]

\* the guard dropped only when read_line returns, not when it unwinds
Defer_drop_on_return(e, r) == IF r = <<"Panic">> THEN e ELSE [e EXCEPT !.termios = e.saved_termios, !.cursor_shape = "block"]
\* Defer::drop: the closure of read_line
Defer_drop(e, r) == [e EXCEPT !.termios = e.saved_termios, !.cursor_shape = "block"]

\* read_line left with r, by return or by a panic that unwinds
Returned(e, r) == [Defer_drop(e, r) EXCEPT !.reading = FALSE, !.result = r]

\* a commit that pushes the line whatever it holds
Committed_pushes_empty(e) ==
    Returned([e EXCEPT !.line_history = Append(e.line_history, current_line(e))],
             <<"Ok", current_line(e).buf>>)
\* after the loop: the line goes to the history unless it is empty
Committed(e) ==
    LET l == current_line(e)
        shown == [e EXCEPT !.cursor_shape = IF is_insert(e.mode) THEN "bar" ELSE "block"]
    IN  Returned([shown EXCEPT !.line_history =
                      IF l.buf # <<>> THEN Append(e.line_history, l) ELSE e.line_history],
                 <<"Ok", l.buf>>)

\* str::find: the characters before the first occurrence of q in t, or -1
RECURSIVE Find(_, _, _)
Find(t, q, k) ==
    IF k + Len(q) > Len(t) THEN -1
    ELSE IF SubSeq(t, k + 1, k + Len(q)) = q THEN k
    ELSE Find(t, q, k + 1)
\* the last index in lo..hi-1 (counted from 0) of a history line holding q, or -1
RECURSIVE LastMatch(_, _, _, _)
LastMatch(h, q, lo, hi) ==
    IF hi <= lo THEN -1
    ELSE IF Find(h[hi].buf, q, 0) >= 0 THEN hi - 1
    ELSE LastMatch(h, q, lo, hi - 1)

\* Command::HistorySearch; the history is not empty when reset is set
HistorySearch(e, query, reset) ==
    LET h == e.line_history
        idx == IF reset THEN Len(h) - 1 ELSE e.history_search_start_idx
        first == LastMatch(h, query, 0, idx)
        second == LastMatch(h, query, idx, Len(h))
        at == IF first >= 0 THEN first ELSE second
        found == cursor_exact(h[at + 1], Find(h[at + 1].buf, query, 0) + Len(query))
        top == [e EXCEPT !.row = 0]
    IN  IF first >= 0
        THEN [SetLine(top, found) EXCEPT !.history_search_start_idx = first]
        ELSE IF second >= 0
        THEN [SetLine(top, found) EXCEPT !.history_search_start_idx = second - idx]
        ELSE SetLine([top EXCEPT !.history_search_start_idx = idx],
                     cursor_end_of_line(Line_from(query)))

\* a HistoryPrev that copies the history from its oldest line on
HistoryPrev_oldest_first(e) ==
    LET new_row == e.row - 1
        i == Len(e.line_history) + new_row
        picked == [e EXCEPT !.temporal = <<e.line_history[-new_row]>> \o e.temporal,
                            !.row = new_row]
        moved == [e EXCEPT !.row = new_row]
    IN  IF Len(e.temporal) - 1 + new_row >= 0 THEN SetLine(moved, cursor_end_of_line(current_line(moved)))
        ELSE IF i >= 0 THEN SetLine(picked, cursor_end_of_line(current_line(picked)))
        ELSE e
HistoryPrev(e) ==
    LET new_row == e.row - 1
        i == Len(e.line_history) + new_row
        picked == [e EXCEPT !.temporal = <<e.line_history[i + 1]>> \o e.temporal,
                            !.row = new_row]
        moved == [e EXCEPT !.row = new_row]
    IN  IF Len(e.temporal) - 1 + new_row >= 0 THEN SetLine(moved, cursor_end_of_line(current_line(moved)))
        ELSE IF i >= 0 THEN SetLine(picked, cursor_end_of_line(current_line(picked)))
        ELSE e

HistoryNext(e) ==
    LET moved == [e EXCEPT !.row = e.row + 1]
    IN  IF e.row < 0 THEN SetLine(moved, cursor_end_of_line(current_line(moved))) ELSE e

\* an Undo that pops the snapshot and leaves the line as it is
Undo_keeps_line(e) ==
    IF e.undo_stack = <<>> THEN [e EXCEPT !.undone = <<>>]
    ELSE [e EXCEPT !.undo_stack = SubSeq(e.undo_stack, 1, Len(e.undo_stack) - 1),
                   !.redo_stack = Append(e.redo_stack, current_line(e)),
                   !.checkpoint = <<>>, !.undone = <<current_line(e)>>]
Undo(e) ==
    IF e.undo_stack = <<>> THEN [e EXCEPT !.undone = <<>>]
    ELSE [SetLine(e, e.undo_stack[Len(e.undo_stack)])
             EXCEPT !.undo_stack = SubSeq(e.undo_stack, 1, Len(e.undo_stack) - 1),
                    !.redo_stack = Append(e.redo_stack, current_line(e)),
                    !.checkpoint = <<>>, !.undone = <<current_line(e)>>]
Redo(e) ==
    IF e.redo_stack = <<>> THEN e
    ELSE [SetLine(e, e.redo_stack[Len(e.redo_stack)])
             EXCEPT !.redo_stack = SubSeq(e.redo_stack, 1, Len(e.redo_stack) - 1),
                    !.undo_stack = Append(e.undo_stack, current_line(e)),
                    !.checkpoint = <<>>]

TryCompleteFilename(e) ==
    LET last_command_is_completion ==
            e.last_command \in {<<"TryCompleteFilename">>, <<"DisplayCompletionCandidate">>}
        asks == ~last_command_is_completion \/ e.completion.dirty = 0
        updated == IF asks THEN CompletionEngine_update(e.completion, current_line(e).buf)
                   ELSE e.completion
        asked == IF updated # e.completion THEN e.queries + 1 ELSE e.queries
        prev == CompletionEngine_prev(updated)
        shortened == delete_prev_times(current_line(e), IF prev = <<>> THEN 0 ELSE Len(prev[1]))
        next == CompletionEngine_next(updated)
        cand == next.candidates[Len(next.candidates)]
    IN  IF updated.candidates = <<>>
        THEN [SetLine(e, shortened) EXCEPT !.completion = updated, !.queries = asked]
        ELSE [SetLine(e, insert_all(shortened, cand))
                 EXCEPT !.completion = IF Len(next.candidates) = 1 THEN CompletionEngine_new
                                       ELSE next,
                        !.queries = asked]

\* one command of the loop over `commands`, for the commands that stay in the loop
Executed(e, cmd) ==
    LET l == current_line(e)
        name == cmd[1]
        reg == IF e.registers = <<>> THEN <<>> ELSE e.registers[1]
    IN  IF name = "ChangeModeToNormal" THEN [e EXCEPT !.mode = NormalMode_default]
        ELSE IF name = "ChangeModeToInsert" THEN [e EXCEPT !.mode = InsertMode_default]
        ELSE IF name = "ChangeModeToVisualChar" THEN [e EXCEPT !.mode = VisualMode_new_char(l.cursor)]
        ELSE IF name = "ChangeModeToVisualLine" THEN [e EXCEPT !.mode = VisualMode_new_line]
        ELSE IF name = "ChangeModeToSearch" THEN [e EXCEPT !.mode = SearchMode_new]
        ELSE IF name = "HistoryPrev" THEN HistoryPrev(e)
        ELSE IF name = "HistoryNext" THEN HistoryNext(e)
        ELSE IF name = "HistorySearch" THEN HistorySearch(e, cmd[2], cmd[3])
        ELSE IF name = "CursorPrevChar" THEN SetLine(e, cursor_prev_char(l))
        ELSE IF name = "CursorNextChar" THEN SetLine(e, cursor_next_char(l))
        ELSE IF name = "CursorPrevCharMatch" THEN SetLine(e, cursor_prev_char_match(l, cmd[2]))
        ELSE IF name = "CursorNextCharMatch" THEN SetLine(e, cursor_next_char_match(l, cmd[2]))
        ELSE IF name = "CursorPrevWordHead" THEN SetLine(e, cursor_prev_word_head(l, FALSE))
        ELSE IF name = "CursorPrevWordHeadWide" THEN SetLine(e, cursor_prev_word_head(l, TRUE))
        ELSE IF name = "CursorNextWordHead" THEN SetLine(e, cursor_next_word_head(l, FALSE))
        ELSE IF name = "CursorNextWordHeadWide" THEN SetLine(e, cursor_next_word_head(l, TRUE))
        ELSE IF name = "CursorNextWordEnd" THEN SetLine(e, cursor_next_word_end(l, FALSE))
        ELSE IF name = "CursorNextWordEndWide" THEN SetLine(e, cursor_next_word_end(l, TRUE))
        ELSE IF name = "CursorEnd" THEN SetLine(e, cursor_end_of_line(l))
        ELSE IF name = "CursorBegin" THEN SetLine(e, cursor_begin_of_line(l))
        ELSE IF name = "CursorExact" THEN SetLine(e, cursor_exact(l, cmd[2]))
        ELSE IF name = "Insert" THEN SetLine(e, insert(l, cmd[2]))
        ELSE IF name = "DeletePrevChar" THEN SetLine(e, delete_prev(l))
        ELSE IF name = "DeleteNextChar" THEN SetLine(e, delete_next(l))
        ELSE IF name = "DeletePrevWord" THEN SetLine(e, delete_word(l))
        ELSE IF name = "DeleteLine" THEN SetLine(e, delete_line(l))
        ELSE IF name = "DeleteRange" THEN SetLine(e, delete_range(l, cmd[2], cmd[3]))
        ELSE IF name = "RegisterStore" THEN [e EXCEPT !.registers = <<cmd[3]>>]
        ELSE IF name = "RegisterPastePrev"
        THEN IF e.registers = <<>> THEN e ELSE SetLine(e, insert_all(l, reg))
        ELSE IF name = "RegisterPasteNext"
        THEN IF e.registers = <<>> THEN e
             ELSE SetLine(e, cursor_prev_char(insert_all(cursor_next_char(l), reg)))
        ELSE IF name = "MakeCheckPoint"
        THEN [e EXCEPT !.undo_stack = Append(e.undo_stack, l), !.redo_stack = <<>>,
                       !.checkpoint = <<l>>]
        ELSE IF name = "Undo" THEN Undo(e)
        ELSE IF name = "Redo" THEN Redo(e)
        ELSE IF name = "TryCompleteFilename" THEN TryCompleteFilename(e)
        ELSE IF name = "DisplayCompletionCandidate"
        THEN [e EXCEPT !.completion = CompletionEngine_update(e.completion, l.buf),
                       !.queries = IF e.completion.line # l.buf THEN e.queries + 1
                                   ELSE e.queries]
        ELSE e

\* a command that makes this run of read_line panic
Panics(e, cmd) ==
    \/ cmd[1] = "Panic"
    \/ cmd[1] = "HistorySearch" /\ cmd[3] /\ e.line_history = <<>>

\* the loop over `commands`
RECURSIVE Run(_, _)
Run(e, cmds) ==
    LET cmd == Head(cmds)
        done == Executed(e, cmd)
        fixed == IF is_insert(done.mode) THEN done
                 ELSE SetLine(done, normal_mode_fix_cursor(current_line(done)))
    IN  IF cmds = <<>> THEN e
        ELSE IF cmd[1] = "Commit" THEN Committed(e)
        ELSE IF cmd[1] = "CdToParent" THEN Returned(e, <<"Ok", <<"c", "d", " ", ".", ".">> >>)
        ELSE IF cmd[1] = "CdUndo" THEN Returned(e, <<"Ok", <<"c", "d", " ", "-">> >>)
        ELSE IF cmd[1] = "CdRedo" THEN Returned(e, <<"Ok", <<"c", "d", " ", "+">> >>)
        ELSE IF Panics(e, cmd) THEN Returned(e, <<"Panic">>)
        ELSE Run([fixed EXCEPT !.last_command = cmd,
                               !.undone = IF cmd[1] = "Undo" THEN done.undone ELSE <<>>],
                 Tail(cmds))

\* a loop that hands every event to the mode
KeyRead_mode_first(e, ev) ==
    LET p == process_event(e.mode, ev, current_line(e))
    IN  Run([e EXCEPT !.mode = p.mode, !.cmds = p.cmds], p.cmds)
\* one turn of the loop of read_line for a read that brought the one event ev
KeyRead(e, ev) ==
    LET l == current_line(e)
        p == process_event(e.mode, ev, l)
        in_run == ev = Key("Tab") /\ e.mode.kind = "Insert"
        noted == [e EXCEPT !.cmds = <<>>,
                           !.tab_line = IF ~in_run THEN <<>>
                                        ELSE IF e.tabs = 0 THEN <<l>> ELSE e.tab_line,
                           !.tabs = IF in_run THEN e.tabs + 1 ELSE 0,
                           !.queries = IF in_run /\ e.tabs > 0 THEN e.queries ELSE 0]
    IN  IF ev = Ctrl("c") THEN Returned(noted, <<"Err", "Aborted">>)
        ELSE IF ev = Ctrl("d") /\ Len(l.buf) = 0 THEN Returned(noted, <<"Err", "Exitted">>)
        ELSE Run([noted EXCEPT !.mode = p.mode, !.cmds = p.cmds], p.cmds)

\* update_line!() at the top of the loop: the cursor is a bar in Insert and Search
Shown(e) ==
    IF e.reading THEN [e EXCEPT !.cursor_shape = IF is_insert(e.mode) THEN "bar" ELSE "block"]
    ELSE e

InitEd ==
    /\ ed = LineEditor_new
    /\ step = -1

\* before eval_command is called
NotRun == [run |-> FALSE, args |-> <<>>, panic |-> ""]
\* before FileCompletion::candidates is called
NotCalled == [called |-> FALSE, found |-> {}]
\* Env::new: env_vars is the environment of the process, shell_vars is empty
Env_new(inherited) ==
    /\ env_shell_vars = <<>>
    /\ env_env_vars = inherited
    /\ var_cmd = <<>>
    /\ var_ret = <<>>
InitCalls ==
    /\ to_line = Line_new
    /\ to_range = <<>>
    /\ fc_partial = <<>>
    /\ fc_cands = NotCalled
    /\ cmd_out = NotRun
InitFn == InitCalls /\ Env_new(<<>>)

(* ------------------------------- Job ---------------------------------- *)
NoMembers == [p \in {} |-> 0]

JobNew(interactive) ==
    [interactive |-> interactive,
     pgid |-> IF interactive THEN None ELSE ShellPid,
     members |-> NoMembers,
     last_status |-> None,
     saved_termios |-> None]

NoJob == JobNew(TRUE)

ProcessIsCompleted(p) == p.status # None

\* a faulty test: one stopped member makes the job stopped
is_stopped_any(j) ==
    \E p \in DOMAIN j.members : ~ProcessIsCompleted(j.members[p]) /\ j.members[p].stopped

is_stopped(j) ==
    \A p \in DOMAIN j.members : ProcessIsCompleted(j.members[p]) \/ j.members[p].stopped

is_completed(j) ==
    \A p \in DOMAIN j.members : ProcessIsCompleted(j.members[p])

\* a faulty test: the loop returns after the first state change
JobDone_first(j) == TRUE

\* wait_for_job's loop returns when this holds of the awaited job
JobDone(j) == is_stopped(j) \/ is_completed(j)

(* ------------------------ mark_process_status ------------------------- *)
Owners(js, pid) == {g \in DOMAIN js : pid \in DOMAIN js[g].members}

\* a faulty bookkeeping: the signal number itself as the status
MarkJob_signo(j, ws) ==
    CASE ws.kind = "Exited" ->
           [j EXCEPT !.members[ws.pid].status = ws.val, !.last_status = ws.val]
      [] ws.kind = "Signaled" ->
           [j EXCEPT !.members[ws.pid].status = ws.val, !.last_status = ws.val]
      [] ws.kind = "Stopped" ->
           [j EXCEPT !.members[ws.pid].stopped = TRUE, !.last_status = ws.val]

MarkJob(j, ws) ==
    CASE ws.kind = "Exited" ->
           [j EXCEPT !.members[ws.pid].status = ws.val, !.last_status = ws.val]
      [] ws.kind = "Signaled" ->
           [j EXCEPT !.members[ws.pid].status = 128 + ws.val, !.last_status = 128 + ws.val]
      [] ws.kind = "Stopped" ->
           [j EXCEPT !.members[ws.pid].stopped = TRUE, !.last_status = 128 + ws.val]

\* a faulty shell_pgid: the terminal's foreground group as it is
shell_pgid_of_terminal == tty_pgrp

\* Shell.shell_pgid
shell_pgid == ShellPid

\* a faulty record: the terminal attributes are not kept
StoppedJobSaved_none(j, t) == j

\* the record of a job still in the table after wait_for_job, given the terminal
\* attributes `t` it left (eval_list lines 393-398, builtin_fg lines 180-185)
StoppedJobSaved(j, t) == [j EXCEPT !.saved_termios = t]

(* ------------------------------ kernel -------------------------------- *)
GroupExists(g) == g = ShellPid \/ \E p \in DOMAIN procs : procs[p].pgid = g

\* kill(-pgid, SIGCONT): every stopped process of the group runs again, and a
\* stop that waitpid has not reported yet is no longer reported
Continued(ps, g) ==
    [p \in DOMAIN ps |->
        IF ps[p].pgid = g /\ ps[p].run = "stopped"
        THEN [ps[p] EXCEPT !.run = "running", !.ws = NoPending]
        ELSE ps[p]]

InitExec ==
    /\ pc = "prompt"
    /\ panic = ""
    /\ cond = "None"
    /\ following = <<>>
    /\ ncmd = FALSE
    /\ job = NoJob
    /\ job_pgid = None
    /\ saved_termios = None
    /\ last_status = None
    /\ fg_pgid = None
    /\ fg_saved_termios = None
    /\ wait_pgid = None
    /\ wait_from = ""
    /\ wait_status = NoWaitStatus
    /\ wait_ret = None
    /\ eval_ret = None
    /\ jobs = [g \in {} |-> NoJob]
    /\ procs = [p \in {} |-> 0]
    /\ next_pid = ShellPid + 1
    /\ tty_pgrp = ShellPid
    /\ termios = 0
    /\ left = {}
    /\ line = <<"w">>

\* the shell started with HOME set
Init ==
    /\ InitExec /\ InitCd /\ InitAlias /\ InitPipe /\ InitStr(HomeBytes) /\ InitParse
    /\ InitEd /\ InitFn
\* the shell started with or without HOME
InitAnyHome ==
    /\ InitExec /\ InitCd /\ InitAlias /\ InitPipe /\ InitParse /\ InitEd /\ InitFn
    /\ \E h \in {HomeBytes, NoHome} : InitStr(h)

Abort(msg) ==
    /\ pc' = "abort"
    /\ panic' = msg

(* ---------------------------- wait_for_job ---------------------------- *)
AfterWait(from) == IF from = "eval_list" THEN "reclaim" ELSE "fg_reclaim"

\* wait_for_job up to its loop: a job without members is removed at once
wait_for_job(js, g, from) ==
    /\ wait_pgid' = g
    /\ wait_from' = from
    /\ wait_status' = NoWaitStatus
    /\ IF g \in DOMAIN js /\ DOMAIN js[g].members = {}
       THEN IF js[g].last_status = None
            THEN Abort("unwrap") /\ jobs' = js /\ wait_ret' = None
            ELSE /\ wait_ret' = js[g].last_status
                 /\ jobs' = Remove(js, g)
                 /\ pc' = AfterWait(from)
                 /\ panic' = panic
       ELSE /\ jobs' = js
            /\ wait_ret' = None
            /\ pc' = "wait"
            /\ panic' = panic

\* waitpid(-1, WUNTRACED): blocks until some child has a state change to report
waitpid ==
    /\ pc = "wait"
    /\ UNCHANGED rest_vars
    /\ IF DOMAIN procs = {}
       THEN /\ Abort("waitpid")
            /\ UNCHANGED <<wait_status, procs>>
       ELSE /\ \E p \in DOMAIN procs :
                 /\ procs[p].ws.kind # "None"
                 /\ wait_status' = [pid |-> p, kind |-> procs[p].ws.kind, val |-> procs[p].ws.val]
                 /\ procs' = IF procs[p].run = "dead"
                             THEN Remove(procs, p)
                             ELSE [procs EXCEPT ![p].ws = NoPending]
            /\ pc' = "mark"
            /\ panic' = panic
    /\ UNCHANGED <<list_vars, fg_vars, wait_pgid, wait_from, wait_ret, jobs, next_pid,
                   tty_pgrp, termios>>

\* the rest of one iteration of wait_for_job's loop
mark_process_status ==
    /\ pc = "mark"
    /\ UNCHANGED rest_vars
    /\ IF Owners(jobs, wait_status.pid) = {}
       THEN /\ Abort("process not found")
            /\ UNCHANGED <<jobs, wait_ret>>
       ELSE \E g \in Owners(jobs, wait_status.pid) :
              LET js == [jobs EXCEPT ![g] = MarkJob(jobs[g], wait_status)]
              IN IF wait_pgid \notin DOMAIN js
                 THEN Abort("unwrap") /\ jobs' = js /\ wait_ret' = wait_ret
                 ELSE LET j == js[wait_pgid]
                      IN IF JobDone(j)
                         THEN IF j.last_status = None
                              THEN Abort("unwrap") /\ jobs' = js /\ wait_ret' = wait_ret
                              ELSE /\ wait_ret' = j.last_status
                                   /\ jobs' = IF is_completed(j) THEN Remove(js, wait_pgid) ELSE js
                                   /\ pc' = AfterWait(wait_from)
                                   /\ panic' = panic
                         ELSE /\ jobs' = js
                              /\ wait_ret' = wait_ret
                              /\ pc' = "wait"
                              /\ panic' = panic
    /\ wait_status' = NoWaitStatus
    /\ UNCHANGED <<list_vars, fg_vars, wait_pgid, wait_from, procs, next_pid, tty_pgrp, termios>>

\* the caller has taken wait_for_job's value: its frame is gone
WaitReturned ==
    /\ wait_pgid' = None
    /\ wait_from' = ""
    /\ wait_status' = NoWaitStatus
    /\ wait_ret' = None

(* ------------------------------ eval_list ----------------------------- *)
\* a faulty test: the two conditions exchanged
Break_exchanged(c, st) ==
    \/ c = "IfSuccess" /\ st = 0
    \/ c = "IfError" /\ st # 0

\* the test of lines 402-403 that ends the loop over list.following
Break(c, st) ==
    \/ c = "IfSuccess" /\ st # 0
    \/ c = "IfError" /\ st = 0

(* ------------------------------ parser -------------------------------- *)
\* the longest line the model follows, in tokens
MaxLine == 3
\* a line as the parser sees it: an argument with the blanks around it, or
\* one of the separators of list_followings and pipe
Tokens == {"w", ";", "&&", "|"}
\* what main hands to eval: lines that are not empty
Lines == SeqsUpTo(Tokens, MaxLine) \ {<<>>}
\* a rule that does not match; a rule that matches gives the position behind
\* what it consumed
Fail == 0
At(l, i, tok) == i <= Len(l) /\ l[i] = tok

\* arguments()+
RECURSIVE simple_command(_, _)
simple_command(l, i) ==
    IF ~At(l, i, "w") THEN Fail
    ELSE IF At(l, i + 1, "w") THEN simple_command(l, i + 1) ELSE i + 1
\* command pipe pipeline / command, the first alternative that matches
RECURSIVE pipeline(_, _)
pipeline(l, i) ==
    LET c == simple_command(l, i)
    IN  IF c = Fail THEN Fail
        ELSE IF At(l, c, "|") /\ pipeline(l, c + 1) # Fail THEN pipeline(l, c + 1)
        ELSE c
\* list_followings()*: as many pairs as match
RECURSIVE list_followings(_, _)
list_followings(l, i) ==
    IF (At(l, i, ";") \/ At(l, i, "&&")) /\ pipeline(l, i + 1) # Fail
    THEN list_followings(l, pipeline(l, i + 1))
    ELSE i
\* pipeline list_followings*
list(l, i) == IF pipeline(l, i) = Fail THEN Fail ELSE list_followings(l, pipeline(l, i))
\* the parse function of a pub rule matches only the whole input
\* (a mutant is content with a list at the beginning of the line)
toplevel_prefix(l) == list(l, 1)
toplevel(l) == IF list(l, 1) = Len(l) + 1 THEN list(l, 1) ELSE Fail

\* Shell::eval with a line that parses: eval_list begins its first pipeline
eval ==
    /\ pc = "prompt"
    /\ toplevel(line) # Fail
    /\ UNCHANGED rest_vars
    /\ ncmd' = FALSE
    /\ job' = JobNew(TRUE)
    /\ pc' = "pipeline"
    /\ UNCHANGED <<panic, cond, following, job_pgid, saved_termios, last_status, eval_ret, left,
                   fg_vars, wait_vars, jobs, procs, next_pid, tty_pgrp, termios>>

\* eval_command of an external command: the parent's side of do_fork_exec.
\* With `scheduled` the child has run up to its execve (setpgid, tcsetpgrp)
\* before the parent goes on; without, it does so later (child_exec).
ForkExec(scheduled) ==
    /\ pc = "pipeline"
    /\ UNCHANGED rest_vars
    /\ next_pid \in ChildPids
    /\ LET child == next_pid
           pgid == IF job.pgid = None THEN child ELSE job.pgid
       IN /\ procs' = Put(procs, child,
                          [pgid |-> pgid, execd |-> scheduled, run |-> "running", ws |-> NoPending])
          /\ job' = [job EXCEPT !.pgid = pgid,
                                !.members = Put(@, child, [stopped |-> FALSE, status |-> None])]
          /\ tty_pgrp' = IF scheduled THEN pgid ELSE tty_pgrp
    /\ next_pid' = next_pid + 1
    /\ ncmd' = TRUE
    /\ UNCHANGED <<pc, panic, cond, following, job_pgid, saved_termios, last_status, eval_ret,
                   left, fg_vars, wait_vars, jobs, termios>>

do_fork_exec == ForkExec(FALSE)

do_fork_exec_scheduled == ForkExec(TRUE)

\* the Executable::Builtin arm of eval_command once the builtin has returned `st`
BuiltinReturned(j, st) ==
    [j EXCEPT !.pgid = IF @ = None THEN shell_pgid ELSE @, !.last_status = st]

\* eval_command of a builtin that leaves jobs and terminal alone (cd, alias, var, ...)
eval_command_builtin ==
    /\ pc = "pipeline"
    /\ UNCHANGED rest_vars
    /\ \E st \in ExitCodes : job' = BuiltinReturned(job, st)
    /\ ncmd' = TRUE
    /\ UNCHANGED <<pc, panic, cond, following, job_pgid, saved_termios, last_status, eval_ret,
                   left, fg_vars, wait_vars, jobs, procs, next_pid, tty_pgrp, termios>>

\* eval_command of exit: std::process::exit(0) when the job table is empty
builtin_exit ==
    /\ pc = "pipeline"
    /\ UNCHANGED rest_vars
    /\ IF DOMAIN jobs = {}
       THEN /\ pc' = "exited"
            /\ UNCHANGED <<job, ncmd>>
       ELSE /\ job' = BuiltinReturned(job, 1)
            /\ ncmd' = TRUE
            /\ pc' = pc
    /\ UNCHANGED <<panic, cond, following, job_pgid, saved_termios, last_status, eval_ret,
                   left, fg_vars, wait_vars, jobs, procs, next_pid, tty_pgrp, termios>>

\* the jobs builtin_fg may select: its argument when that is a key of the table,
\* without an argument any job that is_stopped
FgCandidates(arg) ==
    IF arg # None
    THEN {g \in DOMAIN jobs : g = arg}
    ELSE {g \in DOMAIN jobs : is_stopped(jobs[g])}

\* eval_command of fg, up to the loop of wait_for_job
builtin_fg ==
    /\ pc = "pipeline"
    /\ UNCHANGED rest_vars
    /\ \E arg \in {None, ShellPid} \cup ChildPids :
         IF FgCandidates(arg) = {}
         THEN /\ job' = BuiltinReturned(job, 1)
              /\ ncmd' = TRUE
              /\ UNCHANGED <<pc, panic, fg_vars, wait_vars, jobs, procs, tty_pgrp, termios>>
         ELSE \E g \in FgCandidates(arg) :
              /\ UNCHANGED <<job, ncmd>>
              /\ IF jobs[g].saved_termios = None
                 THEN /\ Abort("not a suspended job")
                      /\ UNCHANGED <<fg_vars, wait_vars, jobs, procs, tty_pgrp, termios>>
                 ELSE IF ~GroupExists(g)
                 THEN /\ Abort("tcsetpgrp")
                      /\ fg_pgid' = g
                      /\ fg_saved_termios' = termios
                      /\ termios' = jobs[g].saved_termios
                      /\ jobs' = [jobs EXCEPT ![g].saved_termios = None]
                      /\ UNCHANGED <<wait_vars, procs, tty_pgrp>>
                 ELSE /\ fg_pgid' = g
                      /\ fg_saved_termios' = termios
                      /\ termios' = jobs[g].saved_termios
                      /\ tty_pgrp' = g
                      /\ procs' = Continued(procs, g)
                      /\ wait_for_job(
                            [jobs EXCEPT ![g].saved_termios = None,
                                         ![g].members = [p \in DOMAIN @ |-> [@[p] EXCEPT !.stopped = FALSE]]],
                            g, "builtin_fg")
    /\ UNCHANGED <<cond, following, job_pgid, saved_termios, last_status, eval_ret, left, next_pid>>

\* builtin_fg after wait_for_job, and eval_command recording fg's status
builtin_fg_reclaim ==
    /\ pc = "fg_reclaim"
    /\ UNCHANGED rest_vars
    /\ tty_pgrp' = shell_pgid
    /\ IF fg_pgid \in DOMAIN jobs /\ is_stopped(jobs[fg_pgid])
       THEN /\ jobs' = [jobs EXCEPT ![fg_pgid] = StoppedJobSaved(@, termios)]
            /\ termios' = fg_saved_termios
       ELSE UNCHANGED <<jobs, termios>>
    /\ job' = BuiltinReturned(job, wait_ret)
    /\ ncmd' = TRUE
    /\ pc' = "pipeline"
    /\ fg_pgid' = None
    /\ fg_saved_termios' = None
    /\ WaitReturned
    /\ UNCHANGED <<panic, cond, following, job_pgid, saved_termios, last_status, eval_ret, left,
                   procs, next_pid>>

\* eval_list once eval_pipeline has returned: insert the job, snapshot the
\* terminal attributes, hand the terminal to the job, call wait_for_job
eval_list_wait ==
    /\ pc = "pipeline"
    /\ UNCHANGED rest_vars
    /\ ncmd
    /\ job_pgid' = job.pgid
    /\ saved_termios' = termios
    /\ left' = DOMAIN job.members
    /\ job' = NoJob
    /\ IF ~GroupExists(job.pgid)
       THEN /\ Abort("tcsetpgrp")
            /\ jobs' = Put(jobs, job.pgid, job)
            /\ UNCHANGED <<tty_pgrp, wait_vars>>
       ELSE /\ tty_pgrp' = job.pgid
            /\ wait_for_job(Put(jobs, job.pgid, job), job.pgid, "eval_list")
    /\ UNCHANGED <<cond, following, ncmd, last_status, eval_ret, fg_vars, procs, next_pid, termios>>

\* eval_list after wait_for_job: take the terminal back; a job still in the
\* table keeps the terminal attributes it left and the snapshot is restored
eval_list_reclaim ==
    /\ pc = "reclaim"
    /\ UNCHANGED rest_vars
    /\ last_status' = wait_ret
    /\ tty_pgrp' = shell_pgid
    /\ IF job_pgid \in DOMAIN jobs /\ is_stopped(jobs[job_pgid])
       THEN /\ jobs' = [jobs EXCEPT ![job_pgid] = StoppedJobSaved(@, termios)]
            /\ termios' = saved_termios
       ELSE UNCHANGED <<jobs, termios>>
    /\ pc' = "cond"
    /\ job_pgid' = None
    /\ saved_termios' = None
    /\ WaitReturned
    /\ UNCHANGED <<panic, cond, following, ncmd, job, eval_ret, left, fg_vars, procs, next_pid>>

\* the head of the loop over list.following, and eval_list's return
eval_list_next ==
    /\ pc = "cond"
    /\ UNCHANGED rest_vars
    /\ \/ \* list.following has no further pair
          /\ cond' = "None"
          /\ following' = <<>>
          /\ eval_ret' = last_status
          /\ pc' = "ret"
          /\ UNCHANGED <<job, ncmd>>
       \/ \E c \in Conditions :
            /\ cond' = c
            /\ IF Break(c, last_status)
               THEN /\ \E f \in SeqsUpTo(Conditions, MaxFollowing) : following' = f
                    /\ eval_ret' = last_status
                    /\ pc' = "ret"
                    /\ UNCHANGED <<job, ncmd>>
               ELSE /\ following' = <<>>
                    /\ job' = JobNew(TRUE)
                    /\ ncmd' = FALSE
                    /\ pc' = "pipeline"
                    /\ UNCHANGED eval_ret
    /\ UNCHANGED <<panic, job_pgid, saved_termios, last_status, left, fg_vars, wait_vars,
                   jobs, procs, next_pid, tty_pgrp, termios>>

\* main: eval has returned, the loop goes back to read_line
MainLoop(next_line) ==
    /\ pc = "ret"
    /\ line' = next_line
    /\ UNCHANGED <<cd_vars, alias_vars, pipe_vars, str_vars, parse_vars, ed_vars, fn_vars>>
    /\ pc' = "prompt"
    /\ cond' = "None"
    /\ following' = <<>>
    /\ ncmd' = FALSE
    /\ last_status' = None
    /\ eval_ret' = None
    /\ left' = {}
    /\ UNCHANGED <<panic, job, job_pgid, saved_termios, fg_vars, wait_vars, jobs, procs,
                   next_pid, tty_pgrp, termios>>

\* the main loop with lines of one kind only
main_loop == MainLoop(line)
\* the main loop with any line read_line may return
read_line == \E l \in Lines : MainLoop(l)

\* Shell::eval with a line that does not parse
eval_syntax_error ==
    /\ pc = "prompt"
    /\ toplevel(line) = Fail
    /\ pc' = "ret"
    /\ eval_ret' = 127
    /\ UNCHANGED <<panic, cond, following, ncmd, job, job_pgid, saved_termios, last_status,
                   left, fg_vars, wait_vars, jobs, procs, next_pid, tty_pgrp, termios,
                   rest_vars>>

(* ----------------------------- children ------------------------------- *)
\* the model follows the children for as long as the shell runs
ShellAlive == pc \notin {"abort", "exited"}

\* the child's side of do_fork_exec up to execve: setpgid, tcsetpgrp
child_exec ==
    /\ ShellAlive
    /\ \E p \in DOMAIN procs :
         /\ procs[p].run = "running"
         /\ ~procs[p].execd
         /\ procs' = [procs EXCEPT ![p].execd = TRUE]
         /\ tty_pgrp' = procs[p].pgid
    /\ UNCHANGED <<shell_vars, termios>>

\* a child ends by _exit (the program's own, or exit(127)/exit(126) after execve failed)
child_exit ==
    /\ ShellAlive
    /\ \E p \in DOMAIN procs, st \in ExitCodes :
         /\ procs[p].run = "running"
         /\ procs[p].execd
         /\ procs' = [procs EXCEPT ![p].run = "dead", ![p].ws = [kind |-> "Exited", val |-> st]]
    /\ UNCHANGED <<shell_vars, tty_pgrp, termios>>

\* a child, running or stopped, is killed by a signal
child_signaled ==
    /\ ShellAlive
    /\ \E p \in DOMAIN procs, sig \in TermSignals :
         /\ procs[p].run \in {"running", "stopped"}
         /\ procs' = [procs EXCEPT ![p].run = "dead", ![p].ws = [kind |-> "Signaled", val |-> sig]]
    /\ UNCHANGED <<shell_vars, tty_pgrp, termios>>

\* a running child is stopped by a signal
child_stopped ==
    /\ ShellAlive
    /\ \E p \in DOMAIN procs, sig \in StopSignals :
         /\ procs[p].run = "running"
         /\ procs' = [procs EXCEPT ![p].run = "stopped", ![p].ws = [kind |-> "Stopped", val |-> sig]]
    /\ UNCHANGED <<shell_vars, tty_pgrp, termios>>

\* a running program of the foreground process group changes the terminal attributes
child_tcsetattr ==
    /\ ShellAlive
    /\ \E p \in DOMAIN procs, t \in Termios :
         /\ procs[p].run = "running"
         /\ procs[p].execd
         /\ procs[p].pgid = tty_pgrp
         /\ t # termios
         /\ termios' = t
    /\ UNCHANGED <<shell_vars, procs, tty_pgrp>>

\* the shell's steps other than a fork
ShellStep ==
    \/ eval
    \/ eval_command_builtin
    \/ builtin_exit
    \/ builtin_fg
    \/ builtin_fg_reclaim
    \/ eval_list_wait
    \/ waitpid
    \/ mark_process_status
    \/ eval_list_reclaim
    \/ eval_list_next
    \/ main_loop

Next ==
    \/ ShellStep
    \/ do_fork_exec
    \/ child_exec
    \/ child_exit
    \/ child_signaled
    \/ child_stopped
    \/ child_tcsetattr

\* the shell and its children, the terminal's foreground group and attributes
Spec == Init /\ [][Next]_vars

NextJobs ==
    \/ ShellStep
    \/ do_fork_exec_scheduled
    \/ child_exit
    \/ child_signaled
    \/ child_stopped

\* the job table alone: every child reaches its execve as it is forked and
\* leaves the terminal attributes as they are
SpecJobs == Init /\ [][NextJobs]_vars

(* ---------------------------- builtin_cd ------------------------------ *)
\* args[1] of a cd command; NoArg is a cd without argument
NoArg == "<none>"
CdArgs == Dirs \cup {"-", "+", NoArg}

\* the directory state as one value
CdState ==
    [cwd |-> cwd, gone |-> cwd_gone, undo |-> cd_undo_stack, redo |-> cd_redo_stack,
     PWD |-> env_PWD, OLDPWD |-> env_OLDPWD]

\* Vec::pop without the element it returns (a mutant keeps the element)
Pop_kept(stack) == stack
Pop(stack) == SubSeq(stack, 1, Len(stack) - 1)
Top(stack) == stack[Len(stack)]

\* Op::Undo and Op::Redo: `from` is the stack popped, `to` the stack that gets
\* the old directory; both are written before set_current_dir is tried
CdPopped(s, ex, from, to) ==
    IF s[from] = <<>>
    THEN [st |-> s, status |-> 2]
    ELSE LET new_cwd == Top(s[from])
             s1 == [s EXCEPT ![from] = Pop(@)]
             s2 == IF s.gone THEN s1
                   ELSE [s1 EXCEPT !.OLDPWD = s.cwd, ![to] = Append(@, s.cwd)]
         IN  IF new_cwd \notin ex
             THEN [st |-> s2, status |-> 1]
             ELSE [st |-> [s2 EXCEPT !.cwd = new_cwd, !.gone = FALSE, !.PWD = new_cwd],
                   status |-> 0]

\* Op::Chdir: set_current_dir first, the bookkeeping on success only
CdChdir(s, ex, new_cwd) ==
    IF new_cwd \notin ex
    THEN [st |-> s, status |-> 1]
    ELSE LET s1 == IF s.gone THEN s
                   ELSE [s EXCEPT !.OLDPWD = s.cwd, !.undo = Append(@, s.cwd)]
         IN  [st |-> [s1 EXCEPT !.cwd = new_cwd, !.gone = FALSE, !.PWD = new_cwd,
                                !.redo = <<>>],
              status |-> 0]

\* the log with one more command, the oldest dropped when it is full
Logged(log, e) ==
    IF Len(log) < MaxLog THEN Append(log, e) ELSE Append(SubSeq(log, 2, Len(log)), e)

\* builtin_cd as a function of the directory state, the directories that
\* exist and args[1]
CdResult(s, ex, arg) ==
    IF arg = "-" THEN CdPopped(s, ex, "undo", "redo")
    ELSE IF arg = "+" THEN CdPopped(s, ex, "redo", "undo")
    ELSE CdChdir(s, ex, IF arg = NoArg THEN HomeDir ELSE arg)

builtin_cd ==
    \E arg \in CdArgs :
        LET r == CdResult(CdState, dirs, arg)
        IN  /\ Len(r.st.undo) <= MaxStack
            /\ Len(r.st.redo) <= MaxStack
            /\ cwd' = r.st.cwd
            /\ cwd_gone' = r.st.gone
            /\ cd_undo_stack' = r.st.undo
            /\ cd_redo_stack' = r.st.redo
            /\ env_PWD' = r.st.PWD
            /\ env_OLDPWD' = r.st.OLDPWD
            /\ cd_status' = r.status
            /\ cd_log' = Logged(cd_log, arg)
            /\ UNCHANGED <<dirs, other_cd>>

\* somebody removes a directory, the shell's current one included
rmdir ==
    \E d \in dirs \ {"/"} :
        /\ dirs' = dirs \ {d}
        /\ cwd_gone' = (cwd_gone \/ cwd = d)
        /\ UNCHANGED <<cwd, cd_undo_stack, cd_redo_stack, env_PWD, env_OLDPWD, cd_status,
                       cd_log, other_cd>>

\* somebody creates a directory; a removed current directory stays removed
mkdir ==
    \E d \in Dirs \ dirs :
        /\ dirs' = dirs \cup {d}
        /\ UNCHANGED <<cwd, cwd_gone, cd_undo_stack, cd_redo_stack, env_PWD, env_OLDPWD,
                       cd_status, cd_log, other_cd>>

NextCd ==
    \/ builtin_cd
    \/ rmdir
    \/ mkdir

\* cd commands, with directories coming and going
SpecCd == Init /\ [][NextCd]_vars

(* --------------------- eval_command and aliases ----------------------- *)
\* the argument vectors typed: short commands, and alias definitions
Argv ==
    (SeqsUpTo(Words, 2) \ {<<>>})
    \cup {<<"alias", n, "=">> \o v :
             n \in AliasNames, v \in SeqsUpTo(ValueWords, MaxValues) \ {<<>>}}

\* eval_command: the alias of args[0], if any, takes the place of args[0]
\* (a mutant looks every argument up)
RECURSIVE AliasSubst_every(_, _)
AliasSubst_every(al, a) ==
    IF a = <<>> THEN <<>>
    ELSE (IF Head(a) \in DOMAIN al THEN al[Head(a)] ELSE <<Head(a)>>)
         \o AliasSubst_every(al, Tail(a))
AliasSubst(al, a) ==
    IF Head(a) \in DOMAIN al THEN al[Head(a)] \o Tail(a) ELSE a

\* builtin_alias: the aliases it leaves and the status it returns
AliasResult(al, a) ==
    IF Len(a) = 1 THEN [aliases |-> al, status |-> 0]
    ELSE IF Len(a) >= 4 /\ a[3] = "="
    THEN [aliases |-> Put(al, a[2], SubSeq(a, 4, Len(a))), status |-> 0]
    ELSE [aliases |-> al, status |-> 1]

\* eval_command of a simple command, as far as the lookup of the executable;
\* the builtin alias is run, any other executable leaves the aliases alone
eval_command ==
    \E a \in Argv :
        LET actual == AliasSubst(aliases, a)
            r == IF Head(actual) = "alias" THEN AliasResult(aliases, actual)
                 ELSE [aliases |-> aliases, status |-> None]
        IN  /\ args' = a
            /\ actual_args' = actual
            /\ aliases' = r.aliases
            /\ builtin_ret' = r.status
            /\ UNCHANGED other_alias

NextAlias == eval_command

\* simple commands and alias definitions
SpecAlias == Init /\ [][NextAlias]_vars

(* --------------------------- eval_pipeline ---------------------------- *)
Pipes == {"Stdout", "Stderr", "Both"}
\* the pipelines of n commands; a command is an external program or a builtin
RECURSIVE PipelinesOf(_)
PipelinesOf(n) ==
    IF n = 1 THEN {<<"Single", "External">>, <<"Single", "Builtin">>}
    ELSE UNION {{<<"Connected", p, l, r>> :
                   p \in Pipes, l \in PipelinesOf(k), r \in PipelinesOf(n - k)} :
                k \in 1..(n - 1)}
Pipelines == UNION {PipelinesOf(n) : n \in 1..MaxCmds}

\* the status flags fcntl(F_SETFL) can change (Linux: the others are ignored)
SetflMask == {"O_APPEND", "O_ASYNC", "O_DIRECT", "O_NOATIME", "O_NONBLOCK"}
F_GETFL(t, fd) == t[fd].flags
F_SETFL(t, fd, new_flags) ==
    [t EXCEPT ![fd].flags = (new_flags \cap SetflMask) \cup (@ \ SetflMask)]
\* io.rs set_cloexec: F_GETFL, or in O_CLOEXEC, F_SETFL
set_cloexec(t, fd) == F_SETFL(t, fd, F_GETFL(t, fd) \cup {"O_CLOEXEC"})

\* the lowest descriptor that is not open
LowestFree(t) ==
    CHOOSE n \in 0..(3 + 2 * MaxCmds) :
        n \notin DOMAIN t /\ \A m \in 0..(n - 1) : m \in DOMAIN t
\* pipe(2): two new descriptors, the read end first
PipeOpened(t, n) ==
    LET r == LowestFree(t)
        t1 == Put(t, r, [file |-> [pipe |-> n, end |-> "r"], flags |-> {"O_RDONLY"},
                         cloexec |-> FALSE])
        w == LowestFree(t1)
    IN  [read |-> r, write |-> w,
         fds |-> Put(t1, w, [file |-> [pipe |-> n, end |-> "w"], flags |-> {"O_WRONLY"},
                             cloexec |-> FALSE])]
\* io.rs pipe_pair: pipe, set_cloexec on both descriptors
pipe_pair(t, n) ==
    LET po == PipeOpened(t, n)
    IN  [po EXCEPT !.fds = set_cloexec(set_cloexec(po.fds, po.read), po.write)]

\* close(2)
Close(t, fd) == Remove(t, fd)
\* dup2(2): newfd refers to oldfd's file, without FD_CLOEXEC
Dup2(t, oldfd, newfd) ==
    IF oldfd = newfd THEN t ELSE Put(t, newfd, [t[oldfd] EXCEPT !.cloexec = FALSE])
\* execve(2): the descriptors with FD_CLOEXEC are closed
Execve(t) == [fd \in {f \in DOMAIN t : ~t[f].cloexec} |-> t[fd]]
\* do_fork_exec in the child: the copy of the shell's table, three dup2, execve
ChildFds(t, io) ==
    Execve(Dup2(Dup2(Dup2(t, io.input, STDIN_FILENO), io.output, STDOUT_FILENO),
                io.error, STDERR_FILENO))

\* Io::stdio, Io::set_input, Io::set_output, Io::set_error
IoStdio == [input |-> STDIN_FILENO, output |-> STDOUT_FILENO, error |-> STDERR_FILENO]
set_input(io, fd) == [io EXCEPT !.input = fd]
set_output(io, fd) == [io EXCEPT !.output = fd]
set_error(io, fd) == [io EXCEPT !.error = fd]
\* eval_pipeline's lhs_io (a mutant passes the read end to lhs) and rhs_io
lhs_io_read(pipe, io, pipe_read, pipe_write) == set_input(io, pipe_read)
lhs_io(pipe, io, pipe_read, pipe_write) ==
    IF pipe = "Stdout" THEN set_output(io, pipe_write)
    ELSE IF pipe = "Stderr" THEN set_error(io, pipe_write)
    ELSE set_error(set_output(io, pipe_write), pipe_write)
rhs_io(pipe, io, pipe_read, pipe_write) == set_input(io, pipe_read)

\* an activation of eval_pipeline: its arguments, its locals, where it is;
\* path is the way from the root of the pipeline to the node
Activation(node, path, io) ==
    [node |-> node, path |-> path, io |-> io, at |-> "enter",
     pipe |-> None, pipe_read |-> None, pipe_write |-> None]
TopOf(stack) == stack[Len(stack)]
Return(stack) == SubSeq(stack, 1, Len(stack) - 1)

\* eval_list calls eval_pipeline for a pipeline of a new job
eval_pipeline ==
    /\ pl_stack = <<>>
    /\ \E t \in Pipelines : pl_stack' = <<Activation(t, <<>>, IoStdio)>>
    /\ npipes' = 0
    /\ children' = <<>>
    /\ UNCHANGED <<fds, other_pipe>>

\* Pipeline::Single: eval_command forks an external program with io, runs a
\* builtin in the shell; then eval_pipeline returns
eval_pipeline_single ==
    /\ pl_stack # <<>>
    /\ LET a == TopOf(pl_stack)
       IN  /\ a.node[1] = "Single"
           /\ children' = IF a.node[2] = "External"
                           THEN Append(children, [path |-> a.path, fds |-> ChildFds(fds, a.io)])
                           ELSE children
    /\ pl_stack' = Return(pl_stack)
    /\ UNCHANGED <<fds, npipes, other_pipe>>

\* Pipeline::Connected: pipe_pair, lhs_io and rhs_io, the call for lhs
eval_pipeline_connected ==
    /\ pl_stack # <<>>
    /\ LET a == TopOf(pl_stack)
           pp == pipe_pair(fds, npipes + 1)
       IN  /\ a.node[1] = "Connected"
           /\ a.at = "enter"
           /\ fds' = pp.fds
           /\ npipes' = npipes + 1
           /\ pl_stack' =
                 Append([pl_stack EXCEPT ![Len(pl_stack)] =
                            [a EXCEPT !.at = "lhs", !.pipe = npipes + 1,
                                      !.pipe_read = pp.read, !.pipe_write = pp.write]],
                        Activation(a.node[3], Append(a.path, "lhs"),
                                   lhs_io(a.node[2], a.io, pp.read, pp.write)))
    /\ UNCHANGED <<children, other_pipe>>

\* lhs has returned: close(pipe_write), the call for rhs
eval_pipeline_close_write ==
    /\ pl_stack # <<>>
    /\ LET a == TopOf(pl_stack)
       IN  /\ a.node[1] = "Connected"
           /\ a.at = "lhs"
           /\ fds' = Close(fds, a.pipe_write)
           /\ pl_stack' =
                 Append([pl_stack EXCEPT ![Len(pl_stack)] = [a EXCEPT !.at = "rhs"]],
                        Activation(a.node[4], Append(a.path, "rhs"),
                                   rhs_io(a.node[2], a.io, a.pipe_read, a.pipe_write)))
    /\ UNCHANGED <<npipes, children, other_pipe>>

\* rhs has returned: close(pipe_read), return
eval_pipeline_close_read ==
    /\ pl_stack # <<>>
    /\ LET a == TopOf(pl_stack)
       IN  /\ a.node[1] = "Connected"
           /\ a.at = "rhs"
           /\ fds' = Close(fds, a.pipe_read)
    /\ pl_stack' = Return(pl_stack)
    /\ UNCHANGED <<npipes, children, other_pipe>>

NextPipe ==
    \/ eval_pipeline
    \/ eval_pipeline_single
    \/ eval_pipeline_connected
    \/ eval_pipeline_close_write
    \/ eval_pipeline_close_read

\* the descriptors of the shell and of its children while pipelines are set up
SpecPipe == Init /\ [][NextPipe]_vars

(* ------------------------------ eval_str ------------------------------ *)
\* the bytes strings are made of (none is `*`: expand_pattern returns its
\* argument)
StrBytes == {"a", " ", "\n", "~"}
\* the bytes eval_str's loop over arg_buf takes for whitespace
Whitespace == {" ", "\n", "\t"}
\* StrPart::Chars, and a command substitution with the output of its command
StrParts ==
    {<<k, b>> : k \in {"Chars", "Subst"}, b \in SeqsUpTo(StrBytes, MaxBytes)}

\* eval_str's loop over arg_buf
RECURSIVE Pushed(_, _)
Pushed(b, arg_buf) ==
    IF arg_buf = <<>> THEN b
    ELSE Pushed(IF Head(arg_buf) \in Whitespace
                THEN (IF b # <<>> /\ b[Len(b)] = " " THEN b ELSE Append(b, " "))
                ELSE Append(b, Head(arg_buf)),
                Tail(arg_buf))
\* the buf.pop() after the loop
Trimmed(b) == IF b # <<>> /\ b[Len(b)] = " " THEN SubSeq(b, 1, Len(b) - 1) ELSE b
\* buf after one more part
AfterPart(b, part) ==
    IF part[1] = "Chars" THEN b \o part[2] ELSE Trimmed(Pushed(b, part[2]))

\* expand_tilde, for a HOME that is set
expand_tilde(bytes, h) ==
    IF bytes # <<>> /\ Head(bytes) = "~" THEN h \o Tail(bytes) ELSE bytes

\* eval_args calls eval_str
eval_str ==
    /\ str_at \in {"idle", "returned"}
    /\ parts' \in SeqsUpTo(StrParts, MaxParts)
    /\ part_i' = 0
    /\ buf' = <<>>
    /\ str_at' = "loop"
    /\ str_ret' = <<>>
    /\ UNCHANGED <<home, other_str>>

\* one turn of the loop over parts
eval_str_part ==
    /\ str_at = "loop"
    /\ part_i < Len(parts)
    /\ part_i' = part_i + 1
    /\ buf' = AfterPart(buf, parts[part_i + 1])
    /\ UNCHANGED <<home, parts, str_at, str_ret, other_str>>

\* behind the loop: expand_tilde, whose todo!() panics without HOME, and
\* expand_pattern
eval_str_expand ==
    /\ str_at = "loop"
    /\ part_i = Len(parts)
    /\ IF buf # <<>> /\ Head(buf) = "~" /\ home = NoHome
       THEN str_at' = "abort" /\ UNCHANGED str_ret
       ELSE str_at' = "returned" /\ str_ret' = expand_tilde(buf, home)
    /\ UNCHANGED <<home, parts, part_i, buf, other_str>>

NextStr ==
    \/ eval_str
    \/ eval_str_part
    \/ eval_str_expand

\* the evaluation of strings, in a shell started with or without HOME
SpecStr == InitAnyHome /\ [][NextStr]_vars

(* ------------------------------ parsing ------------------------------- *)
\* the characters of the lines the model parses: words, operators, white space
ListChars == {"a", "b", "|", "!", "&", ";", " "}

\* Shell::eval hands the line to parser::toplevel; the lines are enumerated by growing them
parse_toplevel ==
    /\ Len(src) < MaxText
    /\ \E c \in ListChars :
        /\ src' = Append(src, c)
        /\ ast' = parser_toplevel(src')
    /\ UNCHANGED other_parse

NextParse == parse_toplevel

SpecParse == Init /\ [][NextParse]_vars

\* the characters of the unquoted strings the model parses
RawTextChars == {"a", "\\", " ", "$", "(", ")", "=", "*"}

\* eval_str's strings come from parser::string; the texts are enumerated by growing them
parse_string ==
    /\ Len(src) < MaxText
    /\ \E c \in RawTextChars :
        /\ src' = Append(src, c)
        /\ ast' = parser_string(src')
    /\ UNCHANGED other_parse

NextString == parse_string

SpecString == Init /\ [][NextString]_vars

(* ------------------------------ the editor ---------------------------- *)
\* the longest line, the deepest undo or redo stack and the longest history followed
MaxLen == 2
MaxUndo == 2
MaxHistory == 2
MaxTabs == 3
RECURSIVE AllWithin(_, _)
AllWithin(ls, n) ==
    IF ls = <<>> THEN TRUE ELSE Len(Head(ls).buf) <= n /\ AllWithin(Tail(ls), n)
Bounded(e) ==
    /\ AllWithin(e.temporal, MaxLen)
    /\ Len(e.mode.query.buf) <= MaxLen
    /\ Len(e.undo_stack) <= MaxUndo
    /\ Len(e.redo_stack) <= MaxUndo
    /\ Len(e.line_history) <= MaxHistory
    /\ e.tabs <= MaxTabs

\* the keys of the scenario `h i ESC b d w Enter`
Scenario == <<Char("h"), Char("i"), Key("Escape"), Char("b"), Char("d"), Char("w"), Key("Return")>>
Followed(n, ev) == IF n >= 0 /\ n < Len(Scenario) /\ Scenario[n + 1] = ev THEN n + 1 ELSE -1

\* main calls read_line; the shell may have left the terminal with any attributes
read_line_call ==
    /\ ~ed.reading
    /\ ed.result # <<"Panic">>
    /\ Len(ed.line_history) < MaxHistory
    /\ \E t \in EdTermios : ed' = Shown(ReadLineEntered([ed EXCEPT !.termios = t], t))
    /\ step' = 0
    /\ UNCHANGED other_ed

\* main calls read_line when the history has grown to its bound
read_line_call_full ==
    /\ ~ed.reading
    /\ ed.result # <<"Panic">>
    /\ Len(ed.line_history) = MaxHistory
    /\ \E t \in EdTermios : ed' = Shown(ReadLineEntered([ed EXCEPT !.termios = t], t))
    /\ step' = 0
    /\ UNCHANGED other_ed

\* the first call of read_line in the process
read_line_first ==
    /\ ed = LineEditor_new
    /\ \E t \in EdTermios : ed' = Shown(ReadLineEntered([ed EXCEPT !.termios = t], t))
    /\ step' = 0
    /\ UNCHANGED other_ed

\* a read of the loop brings one of the keys
read_line_key(keys) ==
    /\ ed.reading
    /\ \E ev \in keys :
        /\ Bounded(KeyRead(ed, ev))
        /\ ed' = Shown(KeyRead(ed, ev))
        /\ step' = Followed(step, ev)
    /\ UNCHANGED other_ed

ScenarioKeys == {Scenario[k] : k \in 1..Len(Scenario)}
NextScenario == read_line_first \/ read_line_key(ScenarioKeys)
SpecScenario == Init /\ [][NextScenario]_vars

\* keys that insert, leave Insert mode, delete, append, undo and redo
UndoKeys == {Char("a"), Key("Escape"), Char("x"), Char("u"), Ctrl("r")}
NextUndo == read_line_first \/ read_line_key(UndoKeys)
SpecUndo == Init /\ [][NextUndo]_vars

\* keys that reach every way out of read_line: a commit, Ctrl-C, Ctrl-D, the cd shortcuts
\* of Insert and Normal mode, and a search in an empty history
RawKeys == {Char("a"), Key("Escape"), Key("Return"), Key("Tab"), Ctrl("c"), Ctrl("d"),
            Ctrl("p"), Ctrl("o"), Ctrl("r")}
NextRaw == read_line_call \/ read_line_key(RawKeys)
SpecRaw == Init /\ [][NextRaw]_vars

\* keys that reach Insert, Normal with and without a combo, Visual and Search mode, with
\* an empty and a non-empty line and history, and the two keys that abort
AbortKeys == {Char("d"), Char("v"), Key("Escape"), Key("Return"), Ctrl("r"),
              Ctrl("c"), Ctrl("d")}
NextAbort == read_line_call \/ read_line_key(AbortKeys)
SpecAbort == Init /\ [][NextAbort]_vars

\* keys that type and erase, walk and search the history, commit, abort, and ask for cd ..
HistoryKeys == {Char("a"), Key("Backspace"), Key("Up"), Key("Down"), Key("Return"),
                Ctrl("r"), Ctrl("c"), Ctrl("d"), Ctrl("p")}
NextHistory == read_line_call \/ read_line_key(HistoryKeys)
SpecHistory == Init /\ [][NextHistory]_vars

\* keys that type, commit, move in the history from Insert and Normal mode
MoveKeys == {Char("a"), Key("Escape"), Key("Up"), Key("Down"), Key("Return")}
NextMoves == read_line_call \/ read_line_call_full \/ read_line_key(MoveKeys)
SpecMoves == Init /\ [][NextMoves]_vars

\* keys that type, leave Insert mode, select by characters and by lines, and yank or
\* delete the selection
VisualKeys == {Char("a"), Key("Escape"), Char("v"), Char("V"), Char("y"), Char("d")}
NextVisual == read_line_first \/ read_line_key(VisualKeys)
SpecVisual == Init /\ [][NextVisual]_vars

\* keys that type, commit, and search the history
SearchKeys == {Char("a"), Char("b"), Key("Return"), Ctrl("r")}
NextSearch == read_line_call \/ read_line_call_full \/ read_line_key(SearchKeys)
SpecSearch == Init /\ [][NextSearch]_vars

\* keys that type, leave Insert mode, and delete in Normal mode: x, D, S, dd, cc
NormalKeys == {Char("a"), Key("Escape"), Char("x"), Char("D"), Char("S"), Char("d"), Char("c")}
NextNormal == read_line_first \/ read_line_key(NormalKeys)
SpecNormal == Init /\ [][NextNormal]_vars

\* keys that type the first letter of a command, erase, and ask for a completion
TabKeys == {Char("f"), Char("g"), Key("Backspace"), Key("Tab")}
NextTab == read_line_first \/ read_line_key(TabKeys)
SpecTab == Init /\ [][NextTab]_vars

(* ----------------------------- variables ------------------------------ *)
\* the names and the values of the variables the model follows; the arguments of a
\* builtin come from eval_str, which has replaced a leading `~`, while the environment
\* the shell inherits holds any bytes
VarNames == {"X", "Y"}
VarValues == {<<>>, <<"a">>, <<"b">>}
InheritedValues == VarValues \cup {<<"~">>}
InheritedEnvs == UNION {[names -> InheritedValues] : names \in SUBSET VarNames}

\* what the Variable part of a string adds to buf
Variable_env_first(name) ==
    IF name \in DOMAIN env_env_vars THEN env_env_vars[name]
    ELSE IF name \in DOMAIN env_shell_vars THEN env_shell_vars[name]
    ELSE <<>>
Variable_value(name) ==
    IF name \in DOMAIN env_shell_vars THEN env_shell_vars[name]
    ELSE IF name \in DOMAIN env_env_vars THEN env_env_vars[name]
    ELSE <<>>

\* eval_str of the string $name: the Variable part, then expand_tilde; the values
\* hold no `*`, so expand_pattern returns its argument
eval_str_variable ==
    /\ \E name \in VarNames :
        /\ var_ret' = <<name, expand_tilde(AfterPart(<<>>, <<"Chars", Variable_value(name)>>), home)>>
        /\ var_cmd' = <<"$", name, 0>>
    /\ UNCHANGED <<env_shell_vars, env_env_vars, other_map>>

\* the argument vectors of var and evar: the listing, an assignment, and one that is
\* rejected
AssignArgs(arg0) ==
    {<<arg0>>} \cup {<<arg0, k, "=", v>> : k \in VarNames, v \in VarValues}
        \cup {<<arg0, k, v>> : k \in VarNames, v \in VarValues}
builtin_var ==
    /\ \E a \in AssignArgs("var") :
        IF Len(a) = 4 /\ a[3] = "="
        THEN env_shell_vars' = Put(env_shell_vars, a[2], a[4]) /\ var_cmd' = Append(a, 0)
        ELSE /\ UNCHANGED env_shell_vars
             /\ var_cmd' = Append(a, IF Len(a) = 1 THEN 0 ELSE 1)
    /\ var_ret' = <<>>
    /\ UNCHANGED <<env_env_vars, other_map>>
builtin_evar ==
    /\ \E a \in AssignArgs("evar") :
        IF Len(a) = 4 /\ a[3] = "="
        THEN env_env_vars' = Put(env_env_vars, a[2], a[4]) /\ var_cmd' = Append(a, 0)
        ELSE /\ UNCHANGED env_env_vars
             /\ var_cmd' = Append(a, IF Len(a) = 1 THEN 0 ELSE 1)
    /\ var_ret' = <<>>
    /\ UNCHANGED <<env_shell_vars, other_map>>
\* unset with any number of names
RECURSIVE RemoveAll(_, _)
RemoveAll(f, names) ==
    IF names = <<>> THEN f ELSE RemoveAll(Remove(f, Head(names)), Tail(names))
builtin_unset ==
    /\ \E names \in SeqsUpTo(VarNames, 2) :
        /\ env_env_vars' = RemoveAll(env_env_vars, names)
        /\ env_shell_vars' = RemoveAll(env_shell_vars, names)
        /\ var_cmd' = <<"unset">> \o names \o <<0>>
    /\ var_ret' = <<>>
    /\ UNCHANGED other_map

\* a shell that inherits any environment
InitInherited ==
    /\ InitExec /\ InitCd /\ InitAlias /\ InitPipe /\ InitStr(HomeBytes) /\ InitParse
    /\ InitEd /\ InitCalls
    /\ \E inherited \in InheritedEnvs : Env_new(inherited)
NextVars == eval_str_variable \/ builtin_var \/ builtin_evar \/ builtin_unset
SpecVars == InitInherited /\ [][NextVars]_vars

(* ------------------------ eval_args of a command ---------------------- *)
\* the characters of the commands: a word, a variable, a quoted string, an
\* @-expansion
ArgChars == {"a", "$", "'", "@", " "}

\* eval_str for parts without a substitution: the characters, the value of a
\* variable; the bytes hold no `~` and no `*`, so the expansions leave them
RECURSIVE eval_str_parts(_)
eval_str_parts(ps) ==
    IF ps = <<>> THEN <<>>
    ELSE (IF Head(ps)[1] = "Chars" THEN Head(ps)[2] ELSE Variable_value(Head(ps)[3]))
         \o eval_str_parts(Tail(ps))
\* the chunks between the bytes eval_args splits at, the empty ones dropped
RECURSIVE Chunks(_, _)
Chunks(bytes, chunk) ==
    IF bytes = <<>> THEN IF chunk = <<>> THEN <<>> ELSE <<chunk>>
    ELSE IF Head(bytes) \in Whitespace
    THEN (IF chunk = <<>> THEN <<>> ELSE <<chunk>>) \o Chunks(Tail(bytes), <<>>)
    ELSE Chunks(Tail(bytes), Append(chunk, Head(bytes)))
eval_args(a) ==
    IF a[1] = "Arg" THEN <<eval_str_parts(a[2])>> ELSE Chunks(eval_str_parts(a[2]), <<>>)
RECURSIVE FlatMap(_)
FlatMap(as) == IF as = <<>> THEN <<>> ELSE eval_args(Head(as)) \o FlatMap(Tail(as))
\* eval_command of Command::Simple up to the lookup of args[0]
SimpleEvaluated(as) ==
    IF FlatMap(as) = <<>>
    THEN [run |-> TRUE, args |-> <<>>, panic |-> "assertion failed: !args.is_empty()"]
    ELSE [run |-> TRUE, args |-> FlatMap(as), panic |-> ""]
\* the line is one simple command
IsSimple(tree) ==
    tree.ok /\ tree.val[2][1] = "Single" /\ tree.val[2][2][1] = "Simple" /\ tree.val[3] = <<>>

\* Shell::eval of a line that is one simple command; the lines are enumerated by
\* growing them
eval_simple ==
    /\ Len(src) < MaxText
    /\ \E c \in ArgChars :
        /\ src' = Append(src, c)
        /\ ast' = parser_toplevel(src')
        /\ cmd_out' = IF IsSimple(ast') THEN SimpleEvaluated(ast'.val[2][2][2]) ELSE NotRun
    /\ UNCHANGED other_cmd

NextArgs == eval_simple
SpecArgs == Init /\ [][NextArgs]_vars

(* --------------------------- FileCompletion --------------------------- *)
\* the longest word the completion is given
MaxPartial == 3
PartialChars == {"d", "u", ".", "/", "~"}
MAIN_SEPARATOR == "/"

\* the file system: the paths from the root, and which of them are directories.
\* The working directory /h holds the directories du, dd and `u d` and the file .d
FsTree ==
    { [path |-> << <<"h">> >>, is_dir |-> TRUE],
      [path |-> << <<"h", "d">> >>, is_dir |-> FALSE],
      [path |-> << <<"h">>, <<"d", "u">> >>, is_dir |-> TRUE],
      [path |-> << <<"h">>, <<"d", "d">> >>, is_dir |-> TRUE],
      [path |-> << <<"h">>, <<"u", " ", "d">> >>, is_dir |-> TRUE],
      [path |-> << <<"h">>, <<".", "d">> >>, is_dir |-> FALSE],
      [path |-> << <<"h">>, <<"d", "u">>, <<"u">> >>, is_dir |-> FALSE] }
CurDir == <<".">>
ParentDir == <<".", ".">>

\* the text between the separators
RECURSIVE Pieces(_, _)
Pieces(t, piece) ==
    IF t = <<>> THEN <<piece>>
    ELSE IF Head(t) = MAIN_SEPARATOR THEN <<piece>> \o Pieces(Tail(t), <<>>)
    ELSE Pieces(Tail(t), Append(piece, Head(t)))
Named(pieces) == SelectSeq(pieces, LAMBDA c : c # <<>> /\ c # CurDir)
\* Path::components: no empty component, and `.` only at the head of a relative path
Path_components(t) ==
    LET pieces == Pieces(t, <<>>)
    IN  IF t # <<>> /\ Head(t) # MAIN_SEPARATOR /\ Head(pieces) = CurDir
        THEN <<CurDir>> \o Named(Tail(pieces))
        ELSE Named(pieces)
Path_is_relative(t) == t = <<>> \/ Head(t) # MAIN_SEPARATOR
\* PathBuf::push of a relative component
Path_push(t, c) ==
    IF t # <<>> /\ t[Len(t)] = MAIN_SEPARATOR THEN t \o c ELSE t \o <<MAIN_SEPARATOR>> \o c
RECURSIVE Path_extend(_, _)
Path_extend(t, comps) ==
    IF comps = <<>> THEN t ELSE Path_extend(Path_push(t, Head(comps)), Tail(comps))
\* std::env::current_dir
current_dir == <<"/", "h">>

\* what the system makes of the components of an absolute path: the directory they
\* lead to, as its names from the root
NoDir == <<"ENOENT">>
IsDir(path) == path = <<>> \/ [path |-> path, is_dir |-> TRUE] \in FsTree
RECURSIVE Resolve(_, _)
Resolve(at, comps) ==
    IF comps = <<>> THEN <<at>>
    ELSE IF Head(comps) = ParentDir
    THEN Resolve(IF at = <<>> THEN at ELSE SubSeq(at, 1, Len(at) - 1), Tail(comps))
    ELSE IF IsDir(Append(at, Head(comps))) THEN Resolve(Append(at, Head(comps)), Tail(comps))
    ELSE NoDir
\* std::fs::read_dir: the entries of the directory, never `.` and `..`
read_dir(dir) ==
    {n \in FsTree : Len(n.path) = Len(dir) + 1 /\ SubSeq(n.path, 1, Len(dir)) = dir}

EscapedChars ==
    {"\\", " ", "\t", "\n", "@", ";", "&", "|", "$", "(", ")", "[", "]", "'", "\"", "=", "?",
     "{", "}"}
RECURSIVE escape_special_characters(_)
escape_special_characters(candidate) ==
    IF candidate = <<>> THEN <<>>
    ELSE (IF Head(candidate) \in EscapedChars THEN <<"\\">> ELSE <<>>)
         \o <<Head(candidate)>> \o escape_special_characters(Tail(candidate))

\* the loop over the entries of dir and the slash for a single directory
FoundIn(comps, pat) ==
    LET dir == Resolve(<<>>, comps)
        found == {n \in read_dir(dir[1]) : IsPrefix(pat, n.path[Len(n.path)])}
        cand(n) ==
            escape_special_characters(
                SubSeq(n.path[Len(n.path)], Len(pat) + 1, Len(n.path[Len(n.path)])))
    IN  IF dir = NoDir THEN {}
        ELSE IF Cardinality(found) = 1 /\ \A n \in found : n.is_dir
        THEN {Append(cand(n), MAIN_SEPARATOR) : n \in found}
        ELSE {cand(n) : n \in found}
\* FileCompletion::find, and the unwrap_or_default of FileCompletion::candidates
FileCompletion_find(partial) ==
    LET given == expand_tilde(partial, HomeBytes)
        path ==
            IF Path_is_relative(given)
            THEN Path_extend(current_dir, Path_components(given))
            ELSE given
        comps == Path_components(path)
    IN  IF partial = <<>> \/ partial[Len(partial)] = MAIN_SEPARATOR THEN FoundIn(comps, <<>>)
        \* parent() of the root and file_name() of a path that ends in `..` are None
        ELSE IF comps = <<>> \/ comps[Len(comps)] = ParentDir THEN {}
        ELSE FoundIn(SubSeq(comps, 1, Len(comps) - 1), comps[Len(comps)])

\* the words are enumerated by growing them
completion_word ==
    /\ Len(fc_partial) < MaxPartial
    /\ \E c \in PartialChars : fc_partial' = Append(fc_partial, c)
    /\ fc_cands' = NotCalled
    /\ UNCHANGED other_fc
\* FileCompletion::candidates with the word as the last word
completion_candidates ==
    /\ fc_cands' = [called |-> TRUE, found |-> FileCompletion_find(fc_partial)]
    /\ UNCHANGED fc_partial
    /\ UNCHANGED other_fc

NextCompletion == completion_word \/ completion_candidates
SpecCompletion == Init /\ [][NextCompletion]_vars

\* the longest line find_range is given
MaxObjLine == 4
\* a character of each class and the two kinds of pair
ObjChars == {"a", "-", " ", "(", ")", "\""}
Selectors == {"Inside", "An"}
TextObjects == {<<"Word", FALSE>>, <<"Word", TRUE>>, <<"Pair", "(", ")">>, <<"Pair", "\"", "\"">>}

\* the lines are enumerated by growing them; the cursor is where Normal mode leaves it
object_line ==
    /\ Len(to_line.buf) < MaxObjLine
    /\ \E c \in ObjChars, k \in 0..Len(to_line.buf) :
        to_line' = [buf |-> Append(to_line.buf, c), cursor |-> k]
    /\ to_range' = <<>>
    /\ UNCHANGED other_obj

\* process_text_object calls find_range with the line and a parsed object
object_find_range ==
    /\ \E sel \in Selectors, obj \in TextObjects :
        to_range' = <<sel, obj, find_range(to_line, sel, obj)>>
    /\ UNCHANGED to_line
    /\ UNCHANGED other_obj

NextObject == object_line \/ object_find_range
SpecObject == Init /\ [][NextObject]_vars

NextLine ==
    \/ read_line
    \/ eval
    \/ eval_syntax_error
    \/ do_fork_exec_scheduled
    \/ eval_command_builtin
    \/ builtin_exit
    \/ eval_list_wait
    \/ waitpid
    \/ mark_process_status
    \/ eval_list_reclaim
    \/ eval_list_next
    \/ child_exit

\* lines of every kind, the parser's verdict on them, and the evaluation of
\* those it accepts, with children that end by themselves; of an accepted
\* line the model keeps only that it was accepted
SpecLine == Init /\ [][NextLine]_vars

TypeOK ==
    /\ pc \in {"prompt", "pipeline", "wait", "mark", "reclaim", "fg_reclaim", "cond", "ret", "abort", "exited"}
    /\ tty_pgrp \in {ShellPid} \cup ChildPids
    /\ termios \in Termios
    /\ ed.mode.kind \in {"Insert", "Normal", "Visual", "Search"}
    /\ ed.row <= 0 /\ Len(ed.temporal) + ed.row >= 1
    /\ current_line(ed).cursor \in 0..Len(current_line(ed).buf)
    /\ ed.completion.dirty \in 0..2

(* ----------------------------- properties ----------------------------- *)
\* a child the kernel still counts as running
Running(p) == p \in DOMAIN procs /\ procs[p].run = "running"
\* a child that has ended, reaped or not
Ended(p) == p \notin DOMAIN procs \/ procs[p].run = "dead"
\* a child that is stopped
Stopped(p) == p \in DOMAIN procs /\ procs[p].run = "stopped"

\* eval_list has evaluated the condition of a pair of list.following
Considered == cond # "None" /\ pc \in {"pipeline", "ret"}

\* C1: at a pair (cond, pipeline) of list.following, `&&` after a non-zero
\* last status or `||` after a zero last status ends the loop: eval_list
\* returns the last status at once, no process is spawned and no later
\* pipeline is evaluated before the next prompt; otherwise the pair's
\* pipeline is evaluated.
C1_BreakEndsList ==
    [][/\ (pc = "cond" /\ pc' # "cond" /\ cond' # "None") =>
            IF \/ cond' = "IfSuccess" /\ last_status # 0
               \/ cond' = "IfError" /\ last_status = 0
            THEN /\ pc' = "ret"
                 /\ eval_ret' = last_status
                 /\ UNCHANGED <<jobs, procs, next_pid, job, tty_pgrp, termios>>
            ELSE /\ pc' = "pipeline"
                 /\ job' = JobNew(TRUE)
        /\ pc = "ret" => /\ pc' \in {"ret", "prompt"}
                         /\ next_pid' = next_pid
                         /\ jobs' = jobs]_vars

\* `true || p ; q`: the list has returned 0 at `||` and left pairs behind
C1_Witness ==
    /\ pc = "ret"
    /\ cond = "IfError"
    /\ eval_ret = 0
    /\ Len(following) = MaxFollowing

\* C2: a pipeline joined with `;` runs whatever the status before it, also
\* behind a `&&` or `||` pipeline that was skipped: when eval_list returns,
\* no `;` pair of the list is left unevaluated.
C2_AlwaysPairsRun ==
    (pc = "ret" /\ cond # "None") =>
        \A i \in 1..Len(following) : following[i] # "Always"

C4_JobPredicates ==
    \A g \in DOMAIN jobs :
        LET m == jobs[g].members
        IN /\ is_completed(jobs[g]) <=> \A p \in DOMAIN m : m[p].status # None
           /\ is_stopped(jobs[g]) <=>
                 /\ \A p \in DOMAIN m : m[p].status # None \/ m[p].stopped
                 /\ \E p \in DOMAIN m : m[p].status = None /\ m[p].stopped

C6_NoCompletedJobAtPrompt ==
    pc = "prompt" =>
        \A g \in DOMAIN jobs : \E p \in DOMAIN jobs[g].members : jobs[g].members[p].status = None

\* C7: every status waitpid reports inside wait_for_job is that of a process
\* recorded in a job of the table: mark_process_status never aborts with
\* "process not found".
C7_ReportedIsRecorded ==
    /\ pc = "mark" => Owners(jobs, wait_status.pid) # {}
    /\ panic # "process not found"

\* C8: mark_process_status of Exited(pid, s) sets the process's status to s,
\* of Signaled(pid, sig) to 128+sig, of Stopped(pid, sig) sets stopped and
\* leaves the status absent; last_status of the owning job becomes s, 128+sig,
\* 128+sig, and no other job and no other member changes.  Nothing but an
\* event writes the last_status of a job of the table, and wait_for_job
\* returns the awaited job's last_status as the events have left it.
C8_Bookkeeping ==
    [][/\ (pc = "mark" /\ pc' \notin {"mark", "abort"}) =>
            LET ws == wait_status
                st == IF ws.kind = "Exited" THEN ws.val ELSE 128 + ws.val
            IN \E g \in DOMAIN jobs :
                 /\ ws.pid \in DOMAIN jobs[g].members
                 /\ DOMAIN jobs' \in {DOMAIN jobs, DOMAIN jobs \ {wait_pgid}}
                 /\ \A h \in DOMAIN jobs' \ {g} : jobs'[h] = jobs[h]
                 /\ g \in DOMAIN jobs' =>
                      LET old == jobs[g].members
                          new == jobs'[g].members
                      IN /\ jobs'[g].last_status = st
                         /\ DOMAIN new = DOMAIN old
                         /\ \A p \in DOMAIN old \ {ws.pid} : new[p] = old[p]
                         /\ new[ws.pid] = IF ws.kind = "Stopped"
                                          THEN [stopped |-> TRUE, status |-> None]
                                          ELSE [stopped |-> old[ws.pid].stopped, status |-> st]
                 /\ pc' \in {"reclaim", "fg_reclaim"} =>
                      wait_ret' = IF g = wait_pgid THEN st ELSE jobs[wait_pgid].last_status
       /\ pc # "mark" =>
            \A h \in DOMAIN jobs \cap DOMAIN jobs' :
                \/ jobs'[h].last_status = jobs[h].last_status
                \/ pc = "pipeline" /\ wait_from' = "eval_list" /\ h = job.pgid]_vars

\* `a | b` where a was killed and b then stopped: 137 recorded for a, and
\* wait_for_job has returned 147
C8_Witness ==
    /\ pc = "reclaim"
    /\ wait_ret = 128 + 19
    /\ wait_pgid \in DOMAIN jobs
    /\ jobs[wait_pgid].last_status = 128 + 19
    /\ \E p, q \in DOMAIN jobs[wait_pgid].members :
         /\ jobs[wait_pgid].members[p] = [stopped |-> FALSE, status |-> 128 + 9]
         /\ jobs[wait_pgid].members[q] = [stopped |-> TRUE, status |-> None]

C10_TermiosOwnership ==
    /\ [](pc = "prompt" => \A g \in DOMAIN jobs : jobs[g].saved_termios # None)
    /\ [][/\ (pc = "pipeline" /\ job_pgid' # None) => saved_termios' = termios
          /\ (pc = "pipeline" /\ fg_pgid' # None) =>
               /\ termios' = jobs[fg_pgid'].saved_termios
               /\ fg_saved_termios' = termios
          /\ (pc = "reclaim" /\ pc' # "reclaim") =>
               IF job_pgid \in DOMAIN jobs'
               THEN jobs'[job_pgid].saved_termios = termios /\ termios' = saved_termios
               ELSE termios' = termios
          /\ (pc = "fg_reclaim" /\ pc' # "fg_reclaim") =>
               IF fg_pgid \in DOMAIN jobs'
               THEN jobs'[fg_pgid].saved_termios = termios /\ termios' = fg_saved_termios
               ELSE termios' = termios]_vars

\* a job changed the terminal attributes and was stopped: its record has the
\* attributes it set, the terminal those the shell had
C10_Witness ==
    /\ pc = "prompt"
    /\ termios = 0
    /\ \E g \in DOMAIN jobs :
         /\ jobs[g].saved_termios = 1
         /\ \E p \in DOMAIN jobs[g].members : Stopped(p)

\* C11: the builtin exit ends the shell only when no job has a running or a
\* stopped member process, the job of the pipeline under evaluation included.
C11_ExitOnlyWithoutPendingJobs ==
    pc = "exited" =>
        /\ \A p \in DOMAIN job.members : ~Running(p) /\ ~Stopped(p)
        /\ \A g \in DOMAIN jobs : \A p \in DOMAIN jobs[g].members : ~Running(p) /\ ~Stopped(p)

\* C12: the builtin fg never aborts the shell: no abort happens in fg's own
\* code nor in the wait_for_job it calls.
C12_FgNeverAborts ==
    pc = "abort" =>
        /\ fg_pgid = None
        /\ wait_from # "builtin_fg"
        /\ panic # "not a suspended job"

\* C13: a cd that does not return 0 leaves the current directory, both
\* stacks, PWD and OLDPWD as they were, whatever its argument.
C13_FailedCdChangesNothing ==
    \A arg \in CdArgs :
        LET r == CdResult(CdState, dirs, arg)
        IN  r.status # 0 => r.st = CdState

C15_AliasAtArg0Once ==
    [][args' # args \/ actual_args' # actual_args =>
         LET head == IF Head(args') \in DOMAIN aliases
                     THEN aliases[Head(args')] ELSE <<Head(args')>>
             n == Len(head)
         IN  /\ Len(actual_args') = n + Len(args') - 1
             /\ \A i \in 1..n : actual_args'[i] = head[i]
             /\ \A i \in 2..Len(args') : actual_args'[n + i - 1] = args'[i]]_vars

\* `ls g` with the aliases ls = ls -F and g: the command run is `ls -F g`
C15_Witness ==
    /\ "g" \in DOMAIN aliases
    /\ "ls" \in DOMAIN aliases /\ aliases["ls"] = <<"ls", "-F">>
    /\ args = <<"ls", "g">>
    /\ actual_args = <<"ls", "-F", "g">>

\* the activations of pl_stack under which a new child's stream is a pipe's:
\* those that wait for rhs (input), those that wait for an lhs whose pipe
\* carries the stream (output, error)
PipedAt(stack, at, pipes) ==
    {i \in 1..Len(stack) : stack[i].at = at /\ stack[i].node[2] \in pipes}
MaxOf(S) == CHOOSE x \in S : \A y \in S : y <= x
\* the file a new child's stream is: the pipe of the innermost such
\* activation, the terminal without one
StreamFile(stack, at, pipes, end) ==
    IF PipedAt(stack, at, pipes) = {} THEN Tty
    ELSE [pipe |-> stack[MaxOf(PipedAt(stack, at, pipes))].pipe, end |-> end]
\* path p leaves for lhs where path q leaves for rhs
LeftOf(p, q) ==
    \E k \in 1..Len(p) :
        /\ k <= Len(q)
        /\ SubSeq(p, 1, k - 1) = SubSeq(q, 1, k - 1)
        /\ p[k] = "lhs" /\ q[k] = "rhs"

\* C16: for every Connected at any depth, a command of lhs is spawned with
\* the pipe's write end as its output, error or both by the kind of pipe,
\* a command of rhs with the read end as its input, the other streams
\* inherited; commands of lhs are spawned before commands of rhs; the shell
\* has the write end open until lhs has been evaluated and closed while rhs
\* is, the read end open until rhs has been evaluated; when the outermost
\* eval_pipeline has returned the shell holds no descriptor of a pipe.
C16_PipeWiring ==
    /\ [](/\ pl_stack = <<>> => fds = Stdio
          /\ \A i \in 1..Len(pl_stack) :
                LET a == pl_stack[i]
                    WriteEnds == {fd \in DOMAIN fds :
                                    fds[fd].file = [pipe |-> a.pipe, end |-> "w"]}
                    ReadEnds == {fd \in DOMAIN fds :
                                   fds[fd].file = [pipe |-> a.pipe, end |-> "r"]}
                IN  a.at # "enter" =>
                        /\ ReadEnds = {a.pipe_read}
                        /\ a.at = "lhs" => WriteEnds = {a.pipe_write}
                        /\ a.at = "rhs" => WriteEnds = {}
          /\ \A i, j \in 1..Len(children) :
                i < j => ~LeftOf(children[j].path, children[i].path))
    /\ [][Len(children') = Len(children) + 1 =>
            LET c == children'[Len(children')].fds
            IN  /\ c[STDIN_FILENO].file = StreamFile(pl_stack, "rhs", Pipes, "r")
                /\ c[STDOUT_FILENO].file =
                      StreamFile(pl_stack, "lhs", {"Stdout", "Both"}, "w")
                /\ c[STDERR_FILENO].file =
                      StreamFile(pl_stack, "lhs", {"Stderr", "Both"}, "w")]_vars

\* `{ a |& b } | c` has been evaluated: three children, two pipes; b reads
\* the first pipe made inside the braces and writes the outer pipe, c reads
\* the outer pipe, and the shell is left with its three descriptors
C16_Witness ==
    /\ pl_stack = <<>>
    /\ npipes = 2
    /\ Len(children) = 3
    /\ fds = Stdio
    /\ children[1].path = <<"lhs", "lhs">>
    /\ children[1].fds[STDOUT_FILENO].file = [pipe |-> 2, end |-> "w"]
    /\ children[1].fds[STDERR_FILENO].file = [pipe |-> 2, end |-> "w"]
    /\ children[2].fds[STDIN_FILENO].file = [pipe |-> 2, end |-> "r"]
    /\ children[2].fds[STDOUT_FILENO].file = [pipe |-> 1, end |-> "w"]
    /\ children[3].fds[STDIN_FILENO].file = [pipe |-> 1, end |-> "r"]
    /\ children[3].fds[STDOUT_FILENO].file = Tty

\* C17: the descriptors pipe_pair returns have close-on-exec set, and a
\* child holds after execve no descriptors but 0, 1 and 2.
C17_NoPipeAcrossExec ==
    /\ \A fd \in DOMAIN fds \ DOMAIN Stdio : fds[fd].cloexec
    /\ \A i \in 1..Len(children) : DOMAIN children[i].fds \subseteq DOMAIN Stdio

\* a string without the whitespace it begins with
RECURSIVE DropWhitespace(_)
DropWhitespace(b) ==
    IF b # <<>> /\ Head(b) \in Whitespace THEN DropWhitespace(Tail(b)) ELSE b
\* a string with every maximal run of whitespace replaced by one space
RECURSIVE Squeezed(_)
Squeezed(b) ==
    IF b = <<>> THEN <<>>
    ELSE IF Head(b) \in Whitespace THEN <<" ">> \o Squeezed(DropWhitespace(b))
    ELSE <<Head(b)>> \o Squeezed(Tail(b))
\* what a part contributes by itself
Contribution(part) ==
    IF part[1] = "Chars" THEN part[2] ELSE Trimmed(Squeezed(part[2]))
RECURSIVE Contributions(_, _)
Contributions(ps, n) ==
    IF n = 0 THEN <<>> ELSE Contributions(ps, n - 1) \o Contribution(ps[n])

\* C18: after any number of parts buf is the concatenation of what each
\* part contributes by itself: a Chars part its bytes, a substitution its
\* output with every run of whitespace replaced by one space and a trailing
\* space removed.
C18_Compositional ==
    str_at = "loop" => buf = Contributions(parts, part_i)

\* C19: expand_tilde never aborts the shell; with HOME set a token that
\* begins with `~` becomes HOME followed by the rest, with HOME unset it
\* stays as it is, and any other token stays as it is.
C19_TildeNeverAborts ==
    /\ str_at # "abort"
    /\ str_at = "returned" =>
          str_ret = IF buf # <<>> /\ Head(buf) = "~" /\ home # NoHome
                    THEN home \o Tail(buf) ELSE buf

\* a line of the grammar: arguments, with single separators between them
WellFormed(l) ==
    /\ l # <<>>
    /\ l[1] = "w" /\ l[Len(l)] = "w"
    /\ \A i \in 1..(Len(l) - 1) : l[i] = "w" \/ l[i + 1] = "w"

\* C20: for a line that is not of the grammar, a prefix of the grammar or
\* not, eval returns 127 and changes nothing: no process, no job, no
\* builtin, the aliases and the directory state as they were; whatever is
\* evaluated comes from a line that is of the grammar as a whole.
C20_RejectedLineNotExecuted ==
    /\ [](/\ pc \notin {"prompt", "ret"} => WellFormed(line)
          /\ (pc = "ret" /\ ~WellFormed(line)) => eval_ret = 127)
    /\ [][(pc = "prompt" /\ ~WellFormed(line) /\ pc' # "prompt") =>
             /\ pc' = "ret"
             /\ eval_ret' = 127
             /\ UNCHANGED <<job, jobs, procs, next_pid, tty_pgrp, termios, last_status,
                            cd_vars, alias_vars, pipe_vars, str_vars>>]_vars

\* after a line that ran a command, the line `w ;`, whose prefix `w` is a
\* list, has been rejected
C20_Witness ==
    /\ line = <<"w", ";">>
    /\ pc = "ret"
    /\ eval_ret = 127
    /\ next_pid > ShellPid + 1
    /\ list(line, 1) # Fail

\* the operators, the longest first, as a reader of the line would cut them
Operators == {<<"|", "|">>, <<"|", "&">>, <<"|", "!">>, <<"&", "&">>, <<";">>, <<"|">>, <<"&">>}
OperatorAt(t, i) ==
    IF \E o \in Operators : Len(o) = 2 /\ Literal(t, i, o) THEN SubSeq(t, i, i + 1)
    ELSE IF \E o \in Operators : Literal(t, i, o) THEN SubSeq(t, i, i)
    ELSE <<>>
RECURSIVE WordEnd(_, _)
WordEnd(t, i) ==
    IF i <= Len(t) /\ t[i] \notin {" ", "|", "&", ";"} THEN WordEnd(t, i + 1) ELSE i
\* the line cut into operators and words
RECURSIVE Cut(_, _)
Cut(t, i) ==
    IF i > Len(t) THEN <<>>
    ELSE IF t[i] = " " THEN Cut(t, i + 1)
    ELSE IF OperatorAt(t, i) # <<>> THEN <<OperatorAt(t, i)>> \o Cut(t, i + Len(OperatorAt(t, i)))
    ELSE <<SubSeq(t, i, WordEnd(t, i) - 1)>> \o Cut(t, WordEnd(t, i))
\* the first position of ts holding one of ops, or 0
RECURSIVE FirstOf(_, _, _)
FirstOf(ts, ops, k) ==
    IF k > Len(ts) THEN 0 ELSE IF ts[k] \in ops THEN k ELSE FirstOf(ts, ops, k + 1)
PipeOf(o) == IF o = <<"|">> THEN "Stdout" ELSE IF o = <<"|", "!">> THEN "Stderr" ELSE "Both"
ConditionOf(o) ==
    IF o = <<";">> THEN "Always" ELSE IF o = <<"&", "&">> THEN "IfSuccess" ELSE "IfError"
PipeOps == {<<"|">>, <<"|", "!">>, <<"|", "&">>}
ListOps == {<<";">>, <<"&", "&">>, <<"|", "|">>}
\* the command made of the words ws
SimpleOf(ws) == <<"Single", <<"Simple", [k \in 1..Len(ws) |-> <<"Arg", << <<"Chars", ws[k]>> >> >>]>> >>
\* the pipeline the words and pipes ts stand for, the rightmost pipe innermost
RECURSIVE PipelineOf(_)
PipelineOf(ts) ==
    LET k == FirstOf(ts, PipeOps, 1)
        rhs == PipelineOf(SubSeq(ts, k + 1, Len(ts)))
    IN  IF ts = <<>> \/ ts[1] \in Operators THEN NoMatch
        ELSE IF k = 0 THEN Matched(0, SimpleOf(ts))
        ELSE IF rhs.ok
        THEN Matched(0, <<"Connected", PipeOf(ts[k]), SimpleOf(SubSeq(ts, 1, k - 1)), rhs.val>>)
        ELSE NoMatch
\* the pipelines after the first, each with the condition of the operator before it
RECURSIVE FollowingOf(_)
FollowingOf(ts) ==
    LET k == FirstOf(ts, ListOps, 2)
        p == PipelineOf(SubSeq(ts, 2, IF k = 0 THEN Len(ts) ELSE k - 1))
        rest == FollowingOf(SubSeq(ts, k, Len(ts)))
    IN  IF ts = <<>> THEN Matched(0, <<>>)
        ELSE IF ~p.ok THEN NoMatch
        ELSE IF k = 0 THEN Matched(0, << <<ConditionOf(ts[1]), p.val>> >>)
        ELSE IF rest.ok THEN Matched(0, << <<ConditionOf(ts[1]), p.val>> >> \o rest.val)
        ELSE NoMatch
\* the tree a line stands for, if any
ListOf(t) ==
    LET ts == Cut(t, 1)
        k == FirstOf(ts, ListOps, 1)
        first == PipelineOf(SubSeq(ts, 1, IF k = 0 THEN Len(ts) ELSE k - 1))
        rest == IF k = 0 THEN Matched(0, <<>>) ELSE FollowingOf(SubSeq(ts, k, Len(ts)))
    IN  IF <<"&">> \notin {ts[j] : j \in 1..Len(ts)} /\ first.ok /\ rest.ok
        THEN Matched(Len(t) + 1, <<"List", first.val, rest.val>>)
        ELSE NoMatch

\* C21: a line is parsed as its operators read longest-first say: `;`, `&&`, `||` give the
\* conditions Always, IfSuccess, IfError, `|`, `|!`, `|&` give the pipes Stdout, Stderr, Both,
\* a two-character operator is never read as `|` and a rest, and a chain of pipes nests to
\* the right; a line that cannot be read so is rejected
C21_OperatorParsing == ast = ListOf(src)
C21_Witness ==
    /\ src = <<"a", "|", "b", "|", "a">>
    /\ ast.ok
    /\ ast.val[2] = <<"Connected", "Stdout", SimpleOf(<< <<"a">> >>),
                      <<"Connected", "Stdout", SimpleOf(<< <<"b">> >>), SimpleOf(<< <<"a">> >>)>> >>

\* the characters with a meaning of their own in an unquoted string
Metaset == {"\\", " ", "\t", "\n", "@", ";", "&", "|", "$", "(", ")", "[", "]", "'", "\"", "=",
            "?", "{", "}", "*"}
\* the characters of t from i on with the escapes removed, when no character of `forbidden`
\* stands unescaped and no `=` or `?` stands before a `(`
RECURSIVE Unescaped(_, _, _)
Unescaped(t, i, forbidden) ==
    LET escaped == Unescaped(t, i + 2, forbidden)
        plain == Unescaped(t, i + 1, forbidden)
    IN  IF i > Len(t) THEN Matched(0, <<>>)
        ELSE IF t[i] = "\\"
        THEN IF i < Len(t) /\ t[i + 1] \in Metaset /\ escaped.ok
             THEN Matched(0, <<t[i + 1]>> \o escaped.val)
             ELSE NoMatch
        ELSE IF t[i] \in forbidden \/ (t[i] \in {"=", "?"} /\ i < Len(t) /\ t[i + 1] = "(")
        THEN NoMatch
        ELSE IF plain.ok THEN Matched(0, <<t[i]>> \o plain.val)
        ELSE NoMatch
\* the string is literal characters only
OnlyChars(r) == r.ok /\ \A k \in 1..Len(r.val) : r.val[k][1] = "Chars"
\* parser::string agrees with the reading of the text that forbids `forbidden`
RawReadAs(forbidden) ==
    LET u == Unescaped(src, 1, forbidden)
    IN  /\ src # <<>> /\ u.ok => ast = Matched(Len(src) + 1, << <<"Chars", u.val>> >>)
        /\ OnlyChars(ast) => u.ok

\* C22: an unquoted string without expansions is accepted exactly when every backslash
\* escapes a metaset character, no other metaset character but `=`, `?` and `*` stands
\* unescaped, and no `=` or `?` stands before `(`; it is then the text with the escaping
\* backslashes removed
C22_RawString == RawReadAs(Metaset \ {"=", "?", "*"})
C22_Witness ==
    /\ src = <<"a", "\\", " ", "*">>
    /\ ast = Matched(5, << <<"Chars", <<"a", " ", "*">> >> >>)
\* C22 as stated: an unescaped `*` is rejected as well
C22_StarRejected == RawReadAs(Metaset \ {"=", "?"})

\* C23: when read_line was given the keys h, i, Escape, b, d, w, Enter, one a read, from an
\* empty buffer in Insert mode, it has returned the empty line
C23_ScenarioCommitsEmptyLine == step = Len(Scenario) => ed.result = <<"Ok", <<>> >>

\* the latest key pushed the one command name
Pushed1(e, name) == e.cmds = << <<name>> >>
\* the lines and stacks of the editor
Buffers(e) == <<e.temporal, e.row, e.undo_stack, e.redo_stack>>

Left(e) == ~e.reading /\ e.result # <<>>

\* C25: however read_line is left (a commit, Aborted, Exitted, a cd shortcut, a panic in the
\* loop), the terminal attributes are those of the entry and the cursor is a block
C25_RawModeScoped ==
    Left(ed) => ed.termios = ed.entry_termios /\ ed.cursor_shape = "block"
\* read_line was entered with the attributes a job left and a panic in the loop ended it
C25_Witness ==
    /\ Left(ed)
    /\ ed.result = <<"Panic">>
    /\ ed.entry_termios = "job"

\* read_line returns the error name from e, with the history of e and nothing committed
Aborts(e, after, name) ==
    /\ ~after.reading
    /\ after.result = <<"Err", name>>
    /\ after.line_history = e.line_history

\* C26: in every mode a Ctrl-C makes read_line return Aborted, and a Ctrl-D on an empty
\* current line makes it return Exitted; no line is committed and the history stays
C26_AbortInEveryMode ==
    ed.reading =>
        /\ Aborts(ed, KeyRead(ed, Ctrl("c")), "Aborted")
        /\ current_line(ed).buf = <<>> => Aborts(ed, KeyRead(ed, Ctrl("d")), "Exitted")
\* Ctrl-D ended a read_line that was in Normal mode with a pending combo, with a history
C26_Witness ==
    /\ Left(ed)
    /\ ed.result = <<"Err", "Exitted">>
    /\ ed.mode.kind = "Normal"
    /\ ed.mode.combo # <<>>
    /\ ed.line_history # <<>>

\* the latest key pushed a Commit and read_line returned by it
CommitReturned(e) ==
    /\ Left(e)
    /\ e.result[1] = "Ok"
    /\ \E k \in 1..Len(e.cmds) : e.cmds[k] = <<"Commit">>

\* C27: line_history changes only when a non-empty line is committed, and then it gains one
\* entry that holds the committed line; history navigation, history search, edits of recalled
\* lines, the commit of an empty line, Aborted, Exitted and the cd shortcuts leave it as it is
C27_HistoryOnlyByCommit ==
    [][IF CommitReturned(ed') /\ ed.reading /\ ed'.result[2] # <<>>
       THEN /\ Len(ed'.line_history) = Len(ed.line_history) + 1
            /\ SubSeq(ed'.line_history, 1, Len(ed.line_history)) = ed.line_history
            /\ ed'.line_history[Len(ed'.line_history)].buf = ed'.result[2]
       ELSE ed'.line_history = ed.line_history]_vars
\* a recalled line was edited and committed, and the entry it came from is as it was
C27_Witness ==
    /\ CommitReturned(ed)
    /\ ed.row < 0
    /\ Len(ed.line_history) = 2
    /\ ed.line_history[1].buf = <<"a">>
    /\ ed.line_history[2].buf = <<"a", "a">>

\* the latest key pushed a HistorySearch that resets
ResetSearched(e) ==
    /\ e.reading
    /\ Len(e.cmds) = 1
    /\ e.cmds[1][1] = "HistorySearch"
    /\ e.cmds[1][3]
\* the index, counted from 0, of the newest history line that holds q, or -1
Newest(e, q) == LastMatch(e.line_history, q, 0, Len(e.line_history))

\* C28: after a HistorySearch that resets, if a history line holds the query, the current line
\* is the newest history line that holds it, with the cursor right after the first occurrence
C28_SearchFromNewest ==
    ResetSearched(ed) /\ Newest(ed, ed.cmds[1][2]) >= 0 =>
        LET q == ed.cmds[1][2]
            h == ed.line_history[Newest(ed, q) + 1]
        IN  current_line(ed) = cursor_exact(h, Find(h.buf, q, 0) + Len(q))

\* the commands the latest key pushed hold a deletion
Deletes(e) ==
    \E k \in 1..Len(e.cmds) : e.cmds[k][1] \in {"DeleteNextChar", "DeleteLine", "DeleteRange"}
\* text is what before holds and after does not
Removed(before, after, text) ==
    \E i \in 0..Len(after) :
        before = SubSeq(after, 1, i) \o text \o SubSeq(after, i + 1, Len(after))
\* the commands hold a RegisterStore of text into the unnamed register before any deletion
StoredFirst(cmds, text) ==
    \E k \in 1..Len(cmds) :
        /\ cmds[k] = RegisterStore(text)
        /\ \A j \in 1..(k - 1) : cmds[j][1] \notin {"DeleteNextChar", "DeleteLine", "DeleteRange"}

\* C29: a key of Normal mode that deletes pushes MakeCheckPoint first and, when what it
\* deletes is not empty, a RegisterStore of exactly that into the unnamed register
C29_DestructiveStores ==
    [][ed.reading /\ ed'.reading /\ ed.mode.kind = "Normal" /\ Deletes(ed')
       => /\ ed'.cmds[1] = MakeCheckPoint
          /\ current_line(ed').buf # current_line(ed).buf =>
                \E n \in 1..Len(current_line(ed).buf) :
                    \E text \in [1..n -> {current_line(ed).buf[k] : k \in 1..Len(current_line(ed).buf)}] :
                        /\ Removed(current_line(ed).buf, current_line(ed').buf, text)
                        /\ StoredFirst(ed'.cmds, text)]_vars

\* C30: after the n-th Tab of a run that began on a line L with the cursor at its end, when
\* the providers return m >= 2 candidates for L the line is L followed by candidate
\* (n-1) mod m and the providers were asked once; when they return one candidate the
\* first Tab leaves L followed by it and every further Tab asks the providers again
C30_CompletionCycles ==
    ed.reading /\ ed.tabs >= 1 /\ ed.tab_line[1].cursor = Len(ed.tab_line[1].buf) =>
        LET L == ed.tab_line[1].buf
            c == candidates(WordsOf(L))
            m == Len(c)
        IN  /\ m >= 2 => /\ current_line(ed).buf = L \o c[((ed.tabs - 1) % m) + 1]
                         /\ ed.queries = 1
            /\ m = 1 => /\ ed.tabs = 1 => current_line(ed).buf = L \o c[1]
                        /\ ed.queries = ed.tabs

\* C31: for a cursor that Normal and Visual mode allow, find_range returns <<from, to>> with
\* 0 <= from <= cursor <= to <= len, and <<0, 0>> on the empty line
C31_RangeInLine ==
    to_range # <<>> =>
        LET from == to_range[3][1]
            to == to_range[3][2]
        IN  /\ 0 <= from /\ from <= to_line.cursor
            /\ to_line.cursor <= to /\ to <= Len(to_line.buf)
            /\ to_line.buf = <<>> => to_range[3] = <<0, 0>>
\* `An` pair of parentheses with the cursor between them: the range takes both
C31_Witness ==
    /\ to_line = [buf |-> <<"(", "a", ")">>, cursor |-> 1]
    /\ to_range = <<"An", <<"Pair", "(", ")">>, <<0, 3>> >>

\* the directory part and the prefix of a word as they are written: the text up to the
\* last separator and the text behind it
LastSeparator(t) ==
    IF \E k \in 1..Len(t) : t[k] = MAIN_SEPARATOR
    THEN CHOOSE k \in 1..Len(t) : t[k] = MAIN_SEPARATOR /\ \A j \in (k + 1)..Len(t) : t[j] # MAIN_SEPARATOR
    ELSE 0
EntriesWithPrefix(partial) ==
    LET given == expand_tilde(partial, HomeBytes)
        cut == LastSeparator(given)
        D == SubSeq(given, 1, cut)
        P == SubSeq(given, cut + 1, Len(given))
        start == IF Path_is_relative(D) THEN << <<"h">> >> ELSE <<>>
        dir == Resolve(start, Named(Pieces(D, <<>>)))
        found == IF dir = NoDir THEN {} ELSE {n \in read_dir(dir[1]) : IsPrefix(P, n.path[Len(n.path)])}
        stripped(n) ==
            escape_special_characters(
                SubSeq(n.path[Len(n.path)], Len(P) + 1, Len(n.path[Len(n.path)])))
    IN  {IF Cardinality(found) = 1 /\ n.is_dir
         THEN Append(stripped(n), MAIN_SEPARATOR)
         ELSE stripped(n) : n \in found}
\* C32: the candidates of a word are the entries of its directory part that start with
\* its prefix, stripped of the prefix and escaped, with a separator behind a single
\* directory
C32_CandidatesOfPrefix ==
    fc_cands.called => fc_cands.found = EntriesWithPrefix(fc_partial)
\* the cases of the test: `d` gives two directories without the separator, `u` gives
\* the single directory with the escaped space and the separator
C32_TestCase ==
    /\ fc_partial = <<"u">>
    /\ fc_cands = [called |-> TRUE, found |-> { <<"\\", " ", "d", "/">> }]

\* the value the maps hold for a name: the shell variable before the exported one
HeldIn(shell, exported, name) ==
    IF name \in DOMAIN shell THEN shell[name]
    ELSE IF name \in DOMAIN exported THEN exported[name]
    ELSE <<>>
Held(name) == HeldIn(env_shell_vars, env_env_vars, name)
\* what var, evar and unset do to the two maps
MapsFrame ==
    /\ var_cmd'[1] = "var" =>
        /\ env_env_vars' = env_env_vars
        /\ env_shell_vars' =
            IF Len(var_cmd') = 5 THEN Put(env_shell_vars, var_cmd'[2], var_cmd'[4])
            ELSE env_shell_vars
    /\ var_cmd'[1] = "evar" =>
        /\ env_shell_vars' = env_shell_vars
        /\ env_env_vars' =
            IF Len(var_cmd') = 5 THEN Put(env_env_vars, var_cmd'[2], var_cmd'[4])
            ELSE env_env_vars
    /\ var_cmd'[1] = "unset" =>
        \A k \in 2..(Len(var_cmd') - 1) :
            /\ var_cmd'[k] \notin DOMAIN env_shell_vars' \cup DOMAIN env_env_vars'
            /\ expand_tilde(HeldIn(env_shell_vars', env_env_vars', var_cmd'[k]), home) = <<>>
    /\ var_cmd'[1] = "$" => env_shell_vars' = env_shell_vars /\ env_env_vars' = env_env_vars
\* C33 as it is written: $X is the value the maps hold for X, whole
C33_WholeValue ==
    var_ret # <<>> => var_ret[2] = Held(var_ret[1])
\* C33: $X is the value of the shell variable X if there is one, else the value of
\* the exported X, else empty, after the tilde expansion eval_str applies to every
\* string (the value itself unless it starts with ~); var changes shell_vars only,
\* evar changes env_vars only and unset removes its names from both
C33_VariableResolution ==
    /\ [](var_ret # <<>> => var_ret[2] = expand_tilde(Held(var_ret[1]), home))
    /\ [][MapsFrame]_vars
\* X is exported as `a` and set to `b` in the shell: $X is b
C33_Witness ==
    /\ "X" \in DOMAIN env_env_vars /\ env_env_vars["X"] = <<"a">>
    /\ "X" \in DOMAIN env_shell_vars /\ env_shell_vars["X"] = <<"b">>
    /\ var_ret = <<"X", <<"b">> >>

\* the row offset selects a line of temporal and reaches no further than the history
RowValid ==
    ed.reading =>
        /\ 0 <= Len(ed.temporal) - 1 + ed.row
        /\ Len(ed.temporal) - 1 + ed.row < Len(ed.temporal)
        /\ -Len(ed.line_history) <= ed.row /\ ed.row <= 0
\* the end of a line: behind its last character in Insert mode, and on it in the
\* modes whose cursor is fixed after every command
AtEnd(e) ==
    current_line(e).cursor =
        IF is_insert(e.mode) THEN Len(current_line(e).buf)
        ELSE normal_mode_fix_cursor(cursor_end_of_line(current_line(e))).cursor
Pushes(e, name) == \E k \in 1..Len(e.cmds) : e.cmds[k] = <<name>>
\* a key that pushed HistoryPrev or HistoryNext
HistoryMove ==
    ed.reading /\ ed'.reading =>
        /\ Pushes(ed', "HistoryPrev") /\ ed.row = -Len(ed.line_history) =>
            ed'.row = ed.row /\ ed'.temporal = ed.temporal
        /\ Pushes(ed', "HistoryNext") /\ ed.row = 0 =>
            ed'.row = ed.row /\ ed'.temporal = ed.temporal
        /\ Pushes(ed', "HistoryPrev") /\ ed.row > -Len(ed.line_history) =>
            /\ ed'.row = ed.row - 1
            /\ AtEnd(ed')
            /\ Len(ed'.temporal) > Len(ed.temporal) =>
                current_line(ed').buf = ed.line_history[Len(ed.line_history) + ed'.row + 1].buf
        /\ Pushes(ed', "HistoryNext") /\ ed.row < 0 =>
            ed'.row = ed.row + 1 /\ AtEnd(ed')
\* C34: the row offset is valid in every state of read_line; a HistoryPrev that goes
\* past the lines already shown shows history[|history| + row], so k of them from a
\* fresh read_line show history[|history| - k]; HistoryPrev at the oldest entry and
\* HistoryNext at row 0 change neither the row nor the lines; after a move the cursor
\* is at the end of the line shown
C34_HistoryRow == []RowValid /\ [][HistoryMove]_vars
\* two HistoryPrev from a fresh read_line over a history of two lines show the older
C34_Witness ==
    /\ ed.reading /\ Len(ed.line_history) = 2 /\ ed.row = -2
    /\ ed.line_history[1].buf # ed.line_history[2].buf
    /\ Pushes(ed, "HistoryPrev")
    /\ Len(ed.temporal) = 3 /\ ed.temporal[3].buf = <<>>
    /\ current_line(ed).buf = ed.line_history[1].buf

\* a key that pushed a HistorySearch whose query no line of the history holds
SearchedInVain(q) ==
    /\ \E k \in 1..Len(ed'.cmds) : ed'.cmds[k][1] = "HistorySearch" /\ ed'.cmds[k][2] = q
    /\ \A k \in 1..Len(ed.line_history) : Find(ed.line_history[k].buf, q, 0) < 0
\* C35: a search that matches nothing, in an empty history too, leaves the query as
\* the line, the cursor at its end and the row at 0, and read_line goes on
C35_NoMatchShowsQuery ==
    [][\A q \in SeqsUpTo({"a", "b"}, MaxLen) :
        ed.reading /\ SearchedInVain(q) =>
            /\ ed'.reading
            /\ ed'.row = 0
            /\ current_line(ed') = [buf |-> q, cursor |-> Len(q)]]_vars
\* a search that matches nothing in a history that is not empty
C35_Witness ==
    /\ ed.reading /\ ed.line_history # <<>> /\ ed.mode.kind = "Search"
    /\ ed.cmds = << <<"HistorySearch", <<"b">>, TRUE>> >>
    /\ \A k \in 1..Len(ed.line_history) : Find(ed.line_history[k].buf, <<"b">>, 0) < 0
    /\ current_line(ed) = [buf |-> <<"b">>, cursor |-> 1] /\ ed.row = 0

\* the selection of Visual mode for the operator ev, as <<from, to>> of the buffer:
\* the whole line in line mode and for the capitals, else from the origin to the cursor
Selection(e, ev) ==
    LET l == current_line(e)
        lo == IF e.mode.origin > l.cursor THEN l.cursor ELSE e.mode.origin
        hi == IF e.mode.origin > l.cursor THEN e.mode.origin ELSE l.cursor
    IN  IF is_line_mode(e.mode) \/ ev \in {Char("D"), Char("C"), Char("S"), Char("Y")}
        THEN <<0, Len(l.buf)>>
        ELSE <<lo, hi + 1>>
Yanks == {Char("y"), Char("Y")}
ToInsert == {Char("c"), Char("s"), Char("C"), Char("S")}
VisualOperators == {Char("d"), Char("x"), Char("y"), Char("D"), Char("Y")} \cup ToInsert
\* what the operator ev of Visual mode did in the step
Operated(ev) ==
    LET sel == Selection(ed, ev)
        was == current_line(ed).buf
    IN  /\ ed'.registers = <<SubSeq(was, sel[1] + 1, sel[2])>>
        /\ current_line(ed').buf =
            IF ev \in Yanks THEN was
            ELSE SubSeq(was, 1, sel[1]) \o SubSeq(was, sel[2] + 1, Len(was))
        /\ ed'.mode.kind = IF ev \in ToInsert THEN "Insert" ELSE "Normal"
\* C36: an operator of Visual mode stores the selection in the unnamed register,
\* deletes the selection and nothing else, or nothing at all for y and Y, and ends in
\* Normal mode, or in Insert mode for c, s, C and S
C36_VisualOperators ==
    [][\A ev \in VisualOperators :
        /\ ed.reading /\ ed.mode.kind = "Visual" /\ ed.mode.combo = <<>>
        /\ ed'.reading /\ ed'.cmds = process_event(ed.mode, ev, current_line(ed)).cmds
        => Operated(ev)]_vars

\* the step of eval_list that inserts its job into the table
Inserts == pc = "pipeline" /\ job_pgid = None /\ job_pgid' = job.pgid /\ job' = NoJob
\* a member of the job j that the kernel still holds
Alive(j) == \E p \in DOMAIN j.members : p \in DOMAIN procs
\* C37: when eval_list inserts a job, the table holds no job under the same pgid
\* whose processes still exist
C37_InsertKeepsLiveJobs ==
    [][Inserts /\ job.pgid \in DOMAIN jobs => ~Alive(jobs[job.pgid])]_vars

\* C38: no key makes read_line leave by a panic
C38_NoKeyPanics == ed.result # <<"Panic">>

\* C39: through a run of Tab presses the line keeps what stood before the cursor when
\* the run began: a completion step deletes only what the step before it inserted
C39_TabKeepsTyped ==
    ed.reading /\ ed.tab_line # <<>> =>
        IsPrefix(SubSeq(ed.tab_line[1].buf, 1, ed.tab_line[1].cursor), current_line(ed).buf)

\* C40: eval_command of a simple command that parses does not panic, whatever its
\* arguments expand to
C40_ArgsNeverAbort == cmd_out.run => cmd_out.panic = ""
\* a command whose name is the empty string is looked up and run
C40_EmptyName ==
    /\ src = <<"'", "'">>
    /\ cmd_out = [run |-> TRUE, args |-> << <<>> >>, panic |-> ""]

====
